---- MODULE Spec2Model ----
(***************************************************************************)
(* dom-xpath-toolkit: the selector-generation engine.                      *)
(*                                                                         *)
(* Strings are sequences of one-character strings, so that trimming,       *)
(* slash collapsing, prefix tests and lengths are computed as the code     *)
(* computes them.  A document is a finite tree of elements; the host's     *)
(* XPath evaluator and querySelectorAll are modelled by Evaluate and       *)
(* QuerySelectorAllAttr over that tree.                                    *)
(***************************************************************************)
EXTENDS Integers, Sequences, FiniteSets, TLC

VARIABLES doc, gens, last, heap, regs

vars == <<doc, gens, last, heap, regs>>

\* no document loaded, no call made yet
NoDoc == [n |-> 0]

NoCall == [op |-> "none"]

(***************************************************************************)
(* Bounds of the model.                                                    *)
(***************************************************************************)
MaxLen == 4

(***************************************************************************)
(* Strings.                                                                *)
(***************************************************************************)
WhitespaceChars == {" ", "\t", "\n"}

RECURSIVE TrimStart(_)
TrimStart(s) ==
    IF s # <<>> /\ Head(s) \in WhitespaceChars THEN TrimStart(Tail(s)) ELSE s

RECURSIVE TrimEnd(_)
TrimEnd(s) ==
    IF s # <<>> /\ s[Len(s)] \in WhitespaceChars
    THEN TrimEnd(SubSeq(s, 1, Len(s) - 1))
    ELSE s

\* String.prototype.trim
Trim(s) == TrimEnd(TrimStart(s))

\* replace(/\/+$/g, '')
RECURSIVE StripTrailingSlashes(_)
StripTrailingSlashes(s) ==
    IF s # <<>> /\ s[Len(s)] = "/"
    THEN StripTrailingSlashes(SubSeq(s, 1, Len(s) - 1))
    ELSE s

\* length of the run of slashes s starts with
RECURSIVE SlashRun(_)
SlashRun(s) ==
    IF s # <<>> /\ Head(s) = "/" THEN 1 + SlashRun(Tail(s)) ELSE 0

\* replace(/\/{3,}/g, '//'): every maximal run of three or more slashes
\* becomes two; runs of one or two are kept
RECURSIVE CollapseSlashes(_)
RECURSIVE CollapseFrom(_, _, _)
CollapseSlashes(s) ==
    IF \A i \in 1..Len(s) : s[i] # "/" THEN s
    ELSE CollapseFrom(s,
                      CHOOSE i \in 1..Len(s) :
                          s[i] = "/" /\ \A j \in 1..(i - 1) : s[j] # "/",
                      SlashRun(SubSeq(s,
                                      CHOOSE i \in 1..Len(s) :
                                          s[i] = "/" /\ \A j \in 1..(i - 1) : s[j] # "/",
                                      Len(s))))
\* s with its first run of slashes, n of them, starting at position first
CollapseFrom(s, first, n) ==
    SubSeq(s, 1, first - 1)
        \o (IF n >= 3 THEN <<"/", "/">> ELSE SubSeq(s, first, first + n - 1))
        \o CollapseSlashes(SubSeq(s, first + n, Len(s)))

normalizeXPath(xpath) ==
    IF xpath = <<>> THEN <<>>
    ELSE LET trimmed == Trim(xpath)
         IN  IF trimmed = <<>> THEN <<>>
             ELSE CollapseSlashes(StripTrailingSlashes(trimmed))

StartsWith(s, p) == Len(s) >= Len(p) /\ SubSeq(s, 1, Len(p)) = p

Contains(s, c) == \E i \in 1..Len(s) : s[i] = c

RECURSIVE Join(_, _)
Join(parts, sep) ==
    IF parts = <<>> THEN <<>>
    ELSE IF Len(parts) = 1 THEN parts[1]
    ELSE parts[1] \o sep \o Join(Tail(parts), sep)

(***************************************************************************)
(* Heuristics and the heuristic registry (plugins).                        *)
(*                                                                         *)
(* A heuristic is a record: its name, and impl, which stands for the       *)
(* object's hooks.  Arrays live in heap, addressed by reference, so that   *)
(* two holders of one array see each other's writes.                       *)
(***************************************************************************)
MaxRegistries == 2
MaxArrays == 3
MaxListLen == 6

idHeuristic == [name |-> "default:id", impl |-> "id"]

uniqueAttributeHeuristic ==
    [name |-> "default:unique-attribute", impl |-> "unique-attribute"]

segmentNormalizationHeuristic ==
    [name |-> "default:segment-normalization", impl |-> "segment-normalization"]

rootHeuristic == [name |-> "default:root-element", impl |-> "root-element"]

DEFAULT_HEURISTICS ==
    <<idHeuristic, uniqueAttributeHeuristic, rootHeuristic,
      segmentNormalizationHeuristic>>

\* heuristics.find((existing) => existing.name === entry.name)
HasName(heuristics, name) ==
    \E i \in 1..Len(heuristics) : heuristics[i].name = name

\* A plausible slip: the loop runs over the arguments first to last, so
\* each unshift puts a later argument in front of an earlier one.
RECURSIVE registerForward(_, _)
registerForward(heuristics, entries) ==
    IF entries = <<>> THEN heuristics
    ELSE LET entry == Head(entries)
         IN  registerForward(
                 IF HasName(heuristics, entry.name) THEN heuristics
                 ELSE <<entry>> \o heuristics,
                 Tail(entries))

\* A plausible slip: new entries are appended, after the built-in ones.
RECURSIVE registerAppend(_, _)
registerAppend(heuristics, entries) ==
    IF entries = <<>> THEN heuristics
    ELSE LET entry == Head(entries)
         IN  registerAppend(
                 IF HasName(heuristics, entry.name) THEN heuristics
                 ELSE Append(heuristics, entry),
                 Tail(entries))

\* A plausible slip: the name check is dropped.
registerUnchecked(heuristics, entries) == entries \o heuristics

\* A plausible slip: an entry whose name is taken replaces the one in the
\* array and moves to the front.
RECURSIVE WithoutName(_, _)
WithoutName(heuristics, name) ==
    IF heuristics = <<>> THEN <<>>
    ELSE (IF Head(heuristics).name = name THEN <<>> ELSE <<Head(heuristics)>>)
             \o WithoutName(Tail(heuristics), name)

RECURSIVE registerReplacing(_, _)
registerReplacing(heuristics, entries) ==
    IF entries = <<>> THEN heuristics
    ELSE LET entry == entries[Len(entries)]
         IN  registerReplacing(<<entry>> \o WithoutName(heuristics, entry.name),
                               SubSeq(entries, 1, Len(entries) - 1))

\* register(...entries): for i = entries.length - 1 down to 0, unshift
\* entries[i] unless an entry of that name is already in the array
RECURSIVE register(_, _)
register(heuristics, entries) ==
    IF entries = <<>> THEN heuristics
    ELSE LET entry == entries[Len(entries)]
         IN  register(
                 IF HasName(heuristics, entry.name) THEN heuristics
                 ELSE <<entry>> \o heuristics,
                 SubSeq(entries, 1, Len(entries) - 1))

\* A plausible slip: the registry keeps the array it was given.
registryBackingShared(initialRef, freshRef) == initialRef

\* const heuristics = [...initial]: the registry's array is a fresh copy
registryBacking(initialRef, freshRef) == freshRef

\* A plausible slip: list() hands out the registry's own array.
listResultShared(backingRef, freshRef) == backingRef

\* list(): return [...heuristics]
listResult(backingRef, freshRef) == freshRef

DefaultRef == 1

\* entries a caller may register: two objects of one name, a third of
\* another name, and a built-in
PluginA1 == [name |-> "plugin:a", impl |-> "a1"]

PluginA2 == [name |-> "plugin:a", impl |-> "a2"]

PluginB == [name |-> "plugin:b", impl |-> "b"]

\* caller plugins with the other hooks: one that only observes
\* (beforeSegment, afterGenerate), two that rewrite every segment, one
\* whose decorateSegment returns null
PluginProbe == [name |-> "plugin:probe", impl |-> "probe"]

PluginStar == [name |-> "plugin:star", impl |-> "star"]

PluginMark == [name |-> "plugin:mark", impl |-> "mark"]

PluginQuiet == [name |-> "plugin:quiet", impl |-> "quiet"]

RegisterEntries == {PluginA1, PluginA2, PluginB, idHeuristic}

\* what a caller pushes onto an array it got from list()
MutateEntries == {PluginA2}

RegisterArgs == UNION {[1..n -> RegisterEntries] : n \in 1..2}

\* what list() of registry r returns
ListOf(r) == heap[regs.backing[r]]

NoDuplicateNames(heuristics) ==
    \A i, j \in 1..Len(heuristics) :
        heuristics[i].name = heuristics[j].name => i = j

InitRegistry ==
    /\ doc = NoDoc
    /\ gens = <<>>
    /\ last = NoCall
    /\ heap = <<DEFAULT_HEURISTICS>>
    /\ regs = [backing |-> <<>>, seed |-> <<>>, listed |-> {}]

\* createHeuristicRegistry(initial = DEFAULT_HEURISTICS); the caller passes
\* the default list or an array it got from list()
CreateHeuristicRegistry ==
    /\ Len(regs.backing) < MaxRegistries
    /\ Len(heap) < MaxArrays
    /\ \E initialRef \in {DefaultRef} \cup regs.listed :
          LET freshRef == Len(heap) + 1
          IN  /\ heap' = Append(heap, heap[initialRef])
              /\ regs' = [regs EXCEPT
                     !.backing = Append(@, registryBacking(initialRef, freshRef)),
                     !.seed = Append(@, heap[initialRef])]
              /\ last' = [op |-> "createHeuristicRegistry",
                          reg |-> Len(regs.backing) + 1,
                          initial |-> initialRef]
    /\ UNCHANGED <<doc, gens>>

Register ==
    /\ \E r \in 1..Len(regs.backing), entries \in RegisterArgs :
          /\ heap' = [heap EXCEPT
                 ![regs.backing[r]] = register(@, entries)]
          /\ last' = [op |-> "register", reg |-> r, entries |-> entries,
                      before |-> ListOf(r)]
    /\ UNCHANGED <<doc, gens, regs>>

List ==
    /\ Len(heap) < MaxArrays
    /\ \E r \in 1..Len(regs.backing) :
          LET freshRef == Len(heap) + 1
          IN  /\ heap' = Append(heap, ListOf(r))
              /\ regs' = [regs EXCEPT
                     !.listed = @ \cup {listResult(regs.backing[r], freshRef)}]
              /\ last' = [op |-> "list", reg |-> r]
    /\ UNCHANGED <<doc, gens>>

\* the caller writes to an array that list() returned
MutateListed ==
    /\ \E ref \in regs.listed, entry \in MutateEntries :
          /\ Len(heap[ref]) < MaxListLen
          /\ heap' = [heap EXCEPT ![ref] = Append(@, entry)]
          /\ last' = [op |-> "mutateListed", ref |-> ref]
    /\ UNCHANGED <<doc, gens, regs>>

NextRegistry ==
    CreateHeuristicRegistry \/ Register \/ List \/ MutateListed

SpecRegistry == InitRegistry /\ [][NextRegistry]_vars

\* the entries of a call all carry new, pairwise different names
AllNew(entries, before) ==
    /\ NoDuplicateNames(entries)
    /\ \A i \in 1..Len(entries) : ~HasName(before, entries[i].name)

C5_RegistryIsolation ==
    [][/\ heap'[DefaultRef] = DEFAULT_HEURISTICS
       /\ \A q \in 1..Len(regs.backing) :
             \/ last'.op = "register" /\ last'.reg = q
             \/ heap'[regs'.backing[q]] = heap[regs.backing[q]]
       /\ (last'.op = "createHeuristicRegistry" /\ last'.initial = DefaultRef)
             => heap'[regs'.backing[last'.reg]] = DEFAULT_HEURISTICS]_vars

\* C5: register has changed one registry while a second registry exists
C5_Witness ==
    /\ last.op = "register"
    /\ Len(regs.backing) = 2
    /\ ListOf(last.reg) # last.before
    /\ \E q \in 1..2 : q # last.reg /\ ListOf(q) # ListOf(last.reg)

\* C5: a caller has written to an array that list() returned
C5_WitnessListed ==
    /\ last.op = "mutateListed"
    /\ Len(regs.backing) = 1
    /\ heap[last.ref] # ListOf(1)

\* C6: a registry seeded with distinctly named heuristics never holds two
\* entries of one name; and a register call leaves the previous contents in
\* place behind what it adds, adds only entries it was passed, and adds no
\* entry whose name was in the registry before the call (nor two of one
\* name), so registering a name that is already present changes nothing.
C6_UniqueNames ==
    /\ \A r \in 1..Len(regs.backing) :
          NoDuplicateNames(regs.seed[r]) => NoDuplicateNames(ListOf(r))
    /\ last.op = "register" =>
          LET after == ListOf(last.reg)
              k == Len(after) - Len(last.before)
          IN  /\ k >= 0
              /\ SubSeq(after, k + 1, Len(after)) = last.before
              /\ NoDuplicateNames(SubSeq(after, 1, k))
              /\ \A j \in 1..k :
                    /\ ~HasName(last.before, after[j].name)
                    /\ \E i \in 1..Len(last.entries) : last.entries[i] = after[j]

\* C6: one call passed two entries of one new name and only one was added
C6_Witness ==
    /\ last.op = "register"
    /\ last.entries = <<PluginA1, PluginA2>>
    /\ ~HasName(last.before, "plugin:a")
    /\ Len(ListOf(last.reg)) = Len(last.before) + 1

\* C6: a call passed a name the registry already held and changed nothing
C6_WitnessPresent ==
    /\ last.op = "register"
    /\ last.entries = <<idHeuristic>>
    /\ ListOf(last.reg) = last.before

(***************************************************************************)
(* The document.                                                           *)
(*                                                                         *)
(* Elements are 1..doc.n; element 1 is the document element and            *)
(* DocumentNode is the Document itself.  doc.parent[e] is e's parent node, *)
(* children are ordered by number, doc.tagName[e] is the upper-case HTML   *)
(* tag name and doc.attrs[e] maps the attribute names e carries to their   *)
(* values.                                                                 *)
(***************************************************************************)
MaxElems == 3
MaxAttrElems == 2

DocumentNode == 0

\* null or undefined
Null == -1

Elements == 1..doc.n

UpperChars ==
    {"A", "B", "C", "D", "E", "F", "G", "H", "I", "J", "K", "L", "M",
     "N", "O", "P", "Q", "R", "S", "T", "U", "V", "W", "X", "Y", "Z"}

LowerChars ==
    {"a", "b", "c", "d", "e", "f", "g", "h", "i", "j", "k", "l", "m",
     "n", "o", "p", "q", "r", "s", "t", "u", "v", "w", "x", "y", "z"}

DigitChars == {"0", "1", "2", "3", "4", "5", "6", "7", "8", "9"}

LowerOf ==
    [c \in UpperChars |->
        CASE c = "A" -> "a" [] c = "B" -> "b" [] c = "C" -> "c" [] c = "D" -> "d"
          [] c = "E" -> "e" [] c = "F" -> "f" [] c = "G" -> "g" [] c = "H" -> "h"
          [] c = "I" -> "i" [] c = "J" -> "j" [] c = "K" -> "k" [] c = "L" -> "l"
          [] c = "M" -> "m" [] c = "N" -> "n" [] c = "O" -> "o" [] c = "P" -> "p"
          [] c = "Q" -> "q" [] c = "R" -> "r" [] c = "S" -> "s" [] c = "T" -> "t"
          [] c = "U" -> "u" [] c = "V" -> "v" [] c = "W" -> "w" [] c = "X" -> "x"
          [] c = "Y" -> "y" [] c = "Z" -> "z"]

\* String.prototype.toLowerCase
toLowerCase(s) ==
    [i \in 1..Len(s) |-> IF s[i] \in UpperChars THEN LowerOf[s[i]] ELSE s[i]]

DigitOf ==
    [d \in 0..9 |->
        CASE d = 0 -> "0" [] d = 1 -> "1" [] d = 2 -> "2" [] d = 3 -> "3"
          [] d = 4 -> "4" [] d = 5 -> "5" [] d = 6 -> "6" [] d = 7 -> "7"
          [] d = 8 -> "8" [] d = 9 -> "9"]

\* a number in a template string: its decimal digits
RECURSIVE NumberToString(_)
NumberToString(k) ==
    IF k < 10 THEN <<DigitOf[k]>>
    ELSE NumberToString(k \div 10) \o <<DigitOf[k % 10]>>

ValueOfDigit(c) == CHOOSE d \in 0..9 : DigitOf[d] = c

\* the number a digit string denotes
RECURSIVE StringToNumber(_)
StringToNumber(s) ==
    IF s = <<>> THEN 0
    ELSE 10 * StringToNumber(SubSeq(s, 1, Len(s) - 1)) + ValueOfDigit(s[Len(s)])

TAG_HTML == <<"H", "T", "M", "L">>

TAG_DIV == <<"D", "I", "V">>

TAG_P == <<"P">>

ATTR_id == <<"i", "d">>

ATTR_name == <<"n", "a", "m", "e">>

ATTR_class == <<"c", "l", "a", "s", "s">>

\* node.parentElement: the parent when it is an element
parentElement(e) == IF doc.parent[e] = DocumentNode THEN Null ELSE doc.parent[e]

\* the element children of a node (of the Document: the document element)
children(node) == {c \in Elements : doc.parent[c] = node}

\* the children of a node in order, smallest number first
RECURSIVE SortedSeq(_)
SortedSeq(S) ==
    IF S = {} THEN <<>>
    ELSE LET lo == CHOOSE x \in S : \A y \in S : x <= y
         IN  <<lo>> \o SortedSeq(S \ {lo})

\* rootElement.contains(node): node is root or a descendant of it
RECURSIVE contains(_, _)
contains(root, node) ==
    \/ node = root
    \/ node \in Elements /\ doc.parent[node] # DocumentNode
          /\ contains(root, doc.parent[node])

\* the elements of the subtree of a node, in document order (the node
\* itself first when it is an element)
RECURSIVE SubtreeOrder(_)
RECURSIVE ChildrenOrder(_)
SubtreeOrder(node) ==
    (IF node = DocumentNode THEN <<>> ELSE <<node>>)
        \o ChildrenOrder(SortedSeq(children(node)))
ChildrenOrder(kids) ==
    IF kids = <<>> THEN <<>>
    ELSE SubtreeOrder(Head(kids)) \o ChildrenOrder(Tail(kids))

\* node.hasAttribute(attribute)
hasAttribute(e, attribute) == attribute \in DOMAIN doc.attrs[e]

\* node.getAttribute(attribute), of an attribute the node carries
getAttribute(e, attribute) == doc.attrs[e][attribute]

\* node.id: the id attribute, the empty string without one
idOf(e) == IF hasAttribute(e, ATTR_id) THEN getAttribute(e, ATTR_id) ELSE <<>>

(***************************************************************************)
(* internal/dom.ts                                                         *)
(***************************************************************************)
\* isElement(node)
isElement(node) == node \in Elements

\* a sibling other than node carries node's tag name
hasSameTagSiblings(node) ==
    LET parent == parentElement(node)
    IN  IF parent = Null THEN FALSE
        ELSE \E sibling \in children(parent) :
                sibling # node /\ doc.tagName[sibling] = doc.tagName[node]

\* A plausible slip: every preceding sibling is counted, whatever its tag.
getElementIndexAnyTag(node) ==
    1 + Cardinality({sibling \in children(doc.parent[node]) : sibling < node})

\* 1 + the number of preceding element siblings of node's tag name
getElementIndex(node) ==
    1 + Cardinality({sibling \in children(doc.parent[node]) :
                        sibling < node
                        /\ doc.tagName[sibling] = doc.tagName[node]})

\* getRootElement(node, options, doc)
getRootElement(node, options) ==
    IF options.root \in Elements THEN options.root
    ELSE IF options.root = DocumentNode THEN 1
    ELSE IF doc.n >= 1 THEN 1
    ELSE Null

\* value.split(sep), sep one character
RECURSIVE Split(_, _)
Split(s, sep) ==
    IF ~Contains(s, sep) THEN <<s>>
    ELSE LET i == CHOOSE k \in 1..Len(s) :
                    s[k] = sep /\ \A j \in 1..(k - 1) : s[j] # sep
         IN  <<SubSeq(s, 1, i - 1)>> \o Split(SubSeq(s, i + 1, Len(s)), sep)

\* the pieces of the concat(...) form: each part quoted, '"' between them
RECURSIVE ConcatParts(_)
ConcatParts(parts) ==
    LET quoted == <<"\"">> \o Head(parts) \o <<"\"">>
    IN  IF Len(parts) = 1 THEN <<quoted>>
        ELSE <<quoted, <<"'", "\"", "'">>>> \o ConcatParts(Tail(parts))

escapeXPathString(value) ==
    IF ~Contains(value, "\"") THEN <<"\"">> \o value \o <<"\"">>
    ELSE IF ~Contains(value, "'") THEN <<"'">> \o value \o <<"'">>
    ELSE <<"c", "o", "n", "c", "a", "t", "(">> \o Join(ConcatParts(Split(value, "\"")), <<",", " ">>)
             \o <<")">>

(***************************************************************************)
(* internal/attributes.ts                                                  *)
(***************************************************************************)
NameChars == LowerChars \cup UpperChars \cup DigitChars \cup {"-", "_"}

\* whether [attribute="..."] is a selector querySelectorAll accepts: the
\* attribute name has to be a CSS identifier
IsCssIdentifier(attribute) ==
    /\ attribute # <<>>
    /\ \A i \in 1..Len(attribute) : attribute[i] \in NameChars
    /\ attribute[1] \notin DigitChars

\* scope.querySelectorAll('[attribute="value"]'): the elements below scope
\* (scope itself is never part of the result) whose attribute has exactly
\* this value
querySelectorAllAttr(scope, attribute, value) ==
    {e \in Elements :
        /\ e # scope
        /\ scope = DocumentNode \/ contains(scope, e)
        /\ hasAttribute(e, attribute)
        /\ getAttribute(e, attribute) = value}

\* the while loop of countAttributeMatchesFallback: pop, test, stop at the
\* second match, push the children
RECURSIVE FallbackLoop(_, _, _, _)
FallbackLoop(stack, count, attribute, value) ==
    IF stack = <<>> THEN count
    ELSE LET current == stack[Len(stack)]
             popped == SubSeq(stack, 1, Len(stack) - 1)
             matched == hasAttribute(current, attribute)
                           /\ getAttribute(current, attribute) = value
             counted == IF matched THEN count + 1 ELSE count
         IN  IF matched /\ counted > 1 THEN counted
             ELSE FallbackLoop(popped \o SortedSeq(children(current)),
                               counted, attribute, value)

countAttributeMatchesFallback(scope, attribute, value) ==
    LET rootElement == IF scope = DocumentNode THEN 1 ELSE scope
    IN  IF doc.n = 0 THEN 0
        ELSE FallbackLoop(<<rootElement>>, 0, attribute, value)

isAttributeUnique(node, attribute, scope) ==
    IF scope = Null THEN FALSE
    ELSE IF ~hasAttribute(node, attribute) THEN FALSE
    ELSE LET value == getAttribute(node, attribute)
             count == IF IsCssIdentifier(attribute)
                      THEN Cardinality(querySelectorAllAttr(scope, attribute, value))
                      ELSE countAttributeMatchesFallback(scope, attribute, value)
         IN  count = 1

buildAttributeSelector(attribute, value) ==
    <<"/", "/", "*", "[", "@">> \o attribute \o <<"=">> \o escapeXPathString(value) \o <<"]">>

(***************************************************************************)
(* options.ts and mergeOptions.  An options object is a record; a field    *)
(* that is not given is "undefined" (Null for root), and given is FALSE    *)
(* when no object was passed at all.                                       *)
(***************************************************************************)
DEFAULT_UNIQUE_ATTRIBUTES ==
    <<<<"d", "a", "t", "a", "-", "t", "e", "s", "t", "i", "d">>,
      <<"d", "a", "t", "a", "-", "t", "e", "s", "t">>,
      <<"a", "r", "i", "a", "-", "l", "a", "b", "e", "l">>,
      ATTR_name, ATTR_class>>

DEFAULT_OPTIONS ==
    [preferId |-> TRUE,
     preferUniqueAttributes |-> DEFAULT_UNIQUE_ATTRIBUTES,
     minIndex |-> "auto",
     namespaceResolver |-> "null"]

NoOptions ==
    [given |-> FALSE, preferId |-> "undefined",
     preferUniqueAttributes |-> [given |-> FALSE, list |-> <<>>],
     minIndex |-> "undefined", root |-> Null]

\* { ...defaults, ...overrides, preferUniqueAttributes: overrides ?? defaults }
mergeOptions(defaults, overrides) ==
    IF ~defaults.given THEN overrides
    ELSE IF ~overrides.given THEN defaults
    ELSE [given |-> TRUE,
          preferId |-> IF overrides.preferId # "undefined"
                       THEN overrides.preferId ELSE defaults.preferId,
          preferUniqueAttributes |->
              IF overrides.preferUniqueAttributes.given
              THEN overrides.preferUniqueAttributes
              ELSE defaults.preferUniqueAttributes,
          minIndex |-> IF overrides.minIndex # "undefined"
                       THEN overrides.minIndex ELSE defaults.minIndex,
          root |-> IF overrides.root # Null THEN overrides.root ELSE defaults.root]

normalizeOptions(options) ==
    [preferId |-> IF options.preferId = "undefined" THEN DEFAULT_OPTIONS.preferId
                  ELSE options.preferId = "true",
     preferUniqueAttributes |->
         IF Len(options.preferUniqueAttributes.list) > 0
         THEN options.preferUniqueAttributes.list
         ELSE DEFAULT_OPTIONS.preferUniqueAttributes,
     minIndex |-> IF options.minIndex = "undefined" THEN DEFAULT_OPTIONS.minIndex
                  ELSE options.minIndex,
     root |-> options.root,
     namespaceResolver |-> DEFAULT_OPTIONS.namespaceResolver]

(***************************************************************************)
(* The host's XPath evaluator, doc.evaluate(expression, contextNode, ...), *)
(* for location paths:                                                     *)
(*     path  ::=  ( "/" | "//" | "./" | ".//" | ) step ( ("/" | "//") step )*  *)
(*     step  ::=  ( "*" | name ) ( "[" digits "]" | "[@" name "=" literal "]" )*  *)
(* with a literal "..." or '...' or concat(literal, ...).  Any other       *)
(* string is a syntax error: evaluate throws.                              *)
(***************************************************************************)
ParseFail == [ok |-> FALSE, pos |-> 0, value |-> <<>>]

CharAt(s, i) == IF i \in 1..Len(s) THEN s[i] ELSE ""

StartsWithAt(s, i, p) ==
    i + Len(p) - 1 <= Len(s) /\ SubSeq(s, i, i + Len(p) - 1) = p

\* the first position at or after i that holds no character of Chars
RunEnd(s, i, Chars) ==
    IF \A k \in i..Len(s) : s[k] \in Chars THEN Len(s) + 1
    ELSE CHOOSE k \in i..Len(s) :
             s[k] \notin Chars /\ \A j \in i..(k - 1) : s[j] \in Chars

\* the first position at or after i that holds c, or 0
IndexOf(s, i, c) ==
    IF \A k \in i..Len(s) : s[k] # c THEN 0
    ELSE CHOOSE k \in i..Len(s) : s[k] = c /\ \A j \in i..(k - 1) : s[j] # c

\* a literal whose opening quote is s[i] and whose closing quote is at close
QuotedUpTo(s, i, close) ==
    IF close = 0 THEN ParseFail
    ELSE [ok |-> TRUE, pos |-> close + 1, value |-> SubSeq(s, i + 1, close - 1)]

ParseQuoted(s, i) == QuotedUpTo(s, i, IndexOf(s, i + 1, s[i]))

\* the arguments of concat(, all of them literals, after the literal lit
RECURSIVE ParseConcatArgs(_, _, _)
RECURSIVE ConcatAfter(_, _, _)
ParseConcatArgs(s, i, acc) ==
    IF CharAt(s, i) \notin {"\"", "'"} THEN ParseFail
    ELSE ConcatAfter(s, acc, ParseQuoted(s, i))
ConcatAfter(s, acc, lit) ==
    IF ~lit.ok THEN ParseFail
    ELSE IF CharAt(s, lit.pos) = ")"
         THEN [ok |-> TRUE, pos |-> lit.pos + 1, value |-> acc \o lit.value]
    ELSE IF CharAt(s, lit.pos) = ","
         THEN ParseConcatArgs(s, RunEnd(s, lit.pos + 1, WhitespaceChars),
                              acc \o lit.value)
    ELSE ParseFail

ParseLiteral(s, i) ==
    IF CharAt(s, i) \in {"\"", "'"} THEN ParseQuoted(s, i)
    ELSE IF StartsWithAt(s, i, <<"c", "o", "n", "c", "a", "t", "(">>)
         THEN ParseConcatArgs(s, i + 7, <<>>)
    ELSE ParseFail

NoPredicate == [kind |-> "none", index |-> 0, name |-> <<>>, value |-> <<>>]

\* [k]: s[i] is "[" and the digits end before j
PositionPredicate(s, i, j) ==
    IF CharAt(s, j) # "]" THEN ParseFail
    ELSE [ok |-> TRUE, pos |-> j + 1,
          value |-> [NoPredicate EXCEPT
                        !.kind = "position",
                        !.index = StringToNumber(SubSeq(s, i + 1, j - 1))]]

\* [@name=literal]: s[i] is "[", the name ends before j, lit is the literal
AttributePredicate(s, i, j, lit) ==
    IF ~lit.ok \/ CharAt(s, lit.pos) # "]" THEN ParseFail
    ELSE [ok |-> TRUE, pos |-> lit.pos + 1,
          value |-> [NoPredicate EXCEPT
                        !.kind = "attribute",
                        !.name = SubSeq(s, i + 2, j - 1),
                        !.value = lit.value]]

AttributeName(s, i, j) ==
    IF j = i + 2 \/ CharAt(s, j) # "=" THEN ParseFail
    ELSE AttributePredicate(s, i, j, ParseLiteral(s, j + 1))

\* a predicate, s[i] being "["
ParsePredicate(s, i) ==
    IF CharAt(s, i + 1) \in DigitChars
    THEN PositionPredicate(s, i, RunEnd(s, i + 1, DigitChars))
    ELSE IF CharAt(s, i + 1) = "@"
    THEN AttributeName(s, i, RunEnd(s, i + 2, NameChars))
    ELSE ParseFail

RECURSIVE ParsePredicates(_, _, _)
RECURSIVE PredicatesAfter(_, _, _)
ParsePredicates(s, i, acc) ==
    IF CharAt(s, i) # "[" THEN [ok |-> TRUE, pos |-> i, value |-> acc]
    ELSE PredicatesAfter(s, acc, ParsePredicate(s, i))
PredicatesAfter(s, acc, pred) ==
    IF ~pred.ok THEN ParseFail
    ELSE ParsePredicates(s, pred.pos, Append(acc, pred.value))

\* the position after the node test that starts at i (i itself for none)
TestEnd(s, i) ==
    IF CharAt(s, i) = "*" THEN i + 1
    ELSE IF CharAt(s, i) = "@"
    THEN (IF RunEnd(s, i + 1, NameChars) = i + 1 THEN i
          ELSE RunEnd(s, i + 1, NameChars))
    ELSE IF CharAt(s, i) \in DigitChars \cup {"-"} THEN i
    ELSE RunEnd(s, i, NameChars)

StepAfter(s, i, axis, j, preds) ==
    IF ~preds.ok THEN ParseFail
    ELSE [ok |-> TRUE, pos |-> preds.pos,
          value |-> [axis |-> axis, test |-> SubSeq(s, i, j - 1),
                     preds |-> preds.value]]

StepTest(s, i, axis, j) ==
    IF j = i THEN ParseFail
    ELSE StepAfter(s, i, axis, j, ParsePredicates(s, j, <<>>))

\* a step: the node test, then its predicates
ParseStep(s, i, axis) == StepTest(s, i, axis, TestEnd(s, i))

RECURSIVE ParsePath(_, _, _, _)
RECURSIVE PathAfter(_, _, _)
ParsePath(s, i, axis, acc) == PathAfter(s, acc, ParseStep(s, i, axis))
PathAfter(s, acc, step) ==
    IF ~step.ok THEN ParseFail
    ELSE IF step.pos > Len(s)
         THEN [ok |-> TRUE, pos |-> step.pos, value |-> Append(acc, step.value)]
    ELSE IF StartsWithAt(s, step.pos, <<"/", "/">>)
         THEN ParsePath(s, step.pos + 2, "descendant", Append(acc, step.value))
    ELSE IF CharAt(s, step.pos) = "/"
         THEN ParsePath(s, step.pos + 1, "child", Append(acc, step.value))
    ELSE ParseFail

\* where the first step of an expression starts, and its axis
PathStart(s) ==
    IF StartsWith(s, <<"/", "/">>) THEN 3
    ELSE IF StartsWith(s, <<"/">>) THEN 2
    ELSE IF StartsWith(s, <<".", "/", "/">>) THEN 4
    ELSE IF StartsWith(s, <<".", "/">>) THEN 3
    ELSE 1

PathAxis(s) ==
    IF StartsWith(s, <<"/", "/">>) \/ StartsWith(s, <<".", "/", "/">>)
    THEN "descendant"
    ELSE "child"

ExpressionOf(s, parsed) ==
    [ok |-> parsed.ok, absolute |-> StartsWith(s, <<"/">>), steps |-> parsed.value]

\* the steps of an expression, and whether it starts at the document
ParseExpression(s) ==
    ExpressionOf(s, ParsePath(s, PathStart(s), PathAxis(s), <<>>))

\* a name test matches an HTML element whatever the case of its letters
MatchesTest(e, test) ==
    test = <<"*">> \/ toLowerCase(doc.tagName[e]) = toLowerCase(test)

RECURSIVE FilterSeq(_, _, _)
FilterSeq(list, name, value) ==
    IF list = <<>> THEN <<>>
    ELSE (IF Head(list) \in Elements /\ hasAttribute(Head(list), name)
                 /\ getAttribute(Head(list), name) = value
          THEN <<Head(list)>> ELSE <<>>) \o FilterSeq(Tail(list), name, value)

\* the predicates of a step, applied in turn to the nodes the node test
\* selected from one context node: [k] keeps the k-th of the list so far
RECURSIVE ApplyPredicates(_, _)
ApplyPredicates(list, preds) ==
    IF preds = <<>> THEN list
    ELSE LET pred == Head(preds)
             kept == IF pred.kind = "position"
                     THEN IF pred.index \in 1..Len(list)
                          THEN <<list[pred.index]>> ELSE <<>>
                     ELSE FilterSeq(list, pred.name, pred.value)
         IN  ApplyPredicates(kept, Tail(preds))

Range(list) == {list[i] : i \in 1..Len(list)}

\* the attribute node of element e that an attribute step selects; nodes
\* other than elements and the document are numbered below Null
AttributeNode(e) == Null - e

OwnerElement(node) == Null - node

\* child::step or attribute::step (the test starts with @) from one context
\* node
StepFrom(node, step) ==
    IF Head(step.test) = "@"
    THEN Range(ApplyPredicates(
                   IF node \in Elements /\ hasAttribute(node, Tail(step.test))
                   THEN <<AttributeNode(node)>> ELSE <<>>,
                   step.preds))
    ELSE Range(ApplyPredicates(
                   SortedSeq({c \in children(node) : MatchesTest(c, step.test)}),
                   step.preds))

\* descendant-or-self::node() of a set of nodes
DescendantsOrSelf(nodes) ==
    nodes \cup {e \in Elements : \E c \in nodes : c = DocumentNode \/ contains(c, e)}

RECURSIVE EvalSteps(_, _)
EvalSteps(nodes, steps) ==
    IF steps = <<>> THEN nodes
    ELSE LET step == Head(steps)
             from == IF step.axis = "descendant" THEN DescendantsOrSelf(nodes)
                     ELSE nodes
         IN  EvalSteps(UNION {StepFrom(c, step) : c \in from}, Tail(steps))

RECURSIVE KeepIn(_, _)
KeepIn(list, S) ==
    IF list = <<>> THEN <<>>
    ELSE (IF Head(list) \in S THEN <<Head(list)>> ELSE <<>>) \o KeepIn(Tail(list), S)

RECURSIVE AttributeNodes(_)
AttributeNodes(owners) ==
    IF owners = <<>> THEN <<>>
    ELSE <<AttributeNode(Head(owners))>> \o AttributeNodes(Tail(owners))

\* a node set in document order: its elements, or its attribute nodes
DocumentOrder(nodes) ==
    KeepIn(SubtreeOrder(DocumentNode), nodes)
        \o AttributeNodes(KeepIn(SubtreeOrder(DocumentNode),
                                 {OwnerElement(a) : a \in nodes}))

\* doc.evaluate: whether it throws, and the matched nodes in document order
EvaluateParsed(parsed, contextNode) ==
    IF ~parsed.ok THEN [throws |-> TRUE, nodes |-> <<>>]
    ELSE [throws |-> FALSE,
          nodes |-> DocumentOrder(EvalSteps({IF parsed.absolute THEN DocumentNode
                                             ELSE contextNode},
                                            parsed.steps))]

evaluate(expression, contextNode) ==
    EvaluateParsed(ParseExpression(expression), contextNode)

(***************************************************************************)
(* plugins/default.ts: the hooks of the heuristics, by impl.  A hook that  *)
(* is not defined, or returns null, gives the empty string: the caller     *)
(* treats the three alike.                                                 *)
(***************************************************************************)
\* getScope(options, node)
getScope(options, node) ==
    IF options.root \in Elements THEN options.root
    ELSE DocumentNode

\* isElement(options.root) && options.root !== doc.documentElement
isCustomRoot(options) == options.root \in Elements /\ options.root # 1

\* A plausible slip: the custom-root test is left out.
idProvideSelectorAnyRoot(context) ==
    LET node == context.node
        options == context.options
    IN  IF ~options.preferId \/ idOf(node) = <<>> THEN <<>>
        ELSE IF ~isAttributeUnique(node, ATTR_id, getScope(options, node)) THEN <<>>
        ELSE <<"/", "/", "*", "[", "@", "i", "d", "=">> \o escapeXPathString(idOf(node)) \o <<"]">>

idProvideSelector(context) ==
    LET node == context.node
        options == context.options
    IN  IF ~options.preferId \/ idOf(node) = <<>> THEN <<>>
        ELSE IF isCustomRoot(options) THEN <<>>
        ELSE IF ~isAttributeUnique(node, ATTR_id, getScope(options, node)) THEN <<>>
        ELSE <<"/", "/", "*", "[", "@", "i", "d", "=">> \o escapeXPathString(idOf(node)) \o <<"]">>

\* the for loop of the unique-attribute heuristic over the attributes left
RECURSIVE FirstUniqueAttribute(_, _, _)
FirstUniqueAttribute(attributes, node, scope) ==
    IF attributes = <<>> THEN <<>>
    ELSE LET attribute == Head(attributes)
         IN  IF ~hasAttribute(node, attribute)
             THEN FirstUniqueAttribute(Tail(attributes), node, scope)
             ELSE IF getAttribute(node, attribute) = <<>>
             THEN FirstUniqueAttribute(Tail(attributes), node, scope)
             ELSE IF isAttributeUnique(node, attribute, scope)
             THEN buildAttributeSelector(attribute, getAttribute(node, attribute))
             ELSE FirstUniqueAttribute(Tail(attributes), node, scope)

uniqueAttributeProvideSelector(context) ==
    LET node == context.node
        options == context.options
    IN  IF Len(options.preferUniqueAttributes) = 0 THEN <<>>
        ELSE IF isCustomRoot(options) THEN <<>>
        ELSE FirstUniqueAttribute(options.preferUniqueAttributes, node,
                                  getScope(options, node))

rootProvideSelector(context) ==
    IF context.node = context.root
    THEN <<"/">> \o toLowerCase(doc.tagName[context.node])
    ELSE <<>>

\* a caller's plugin, after the test's customHeuristic: a selector of its
\* own for every element that carries a non-empty id
pluginProvideSelector(context) ==
    IF idOf(context.node) # <<>>
    THEN <<"/", "/">> \o toLowerCase(doc.tagName[context.node])
    ELSE <<>>

provideSelector(heuristic, context) ==
    CASE heuristic.impl = "id" -> idProvideSelector(context)
      [] heuristic.impl = "unique-attribute" -> uniqueAttributeProvideSelector(context)
      [] heuristic.impl = "root-element" -> rootProvideSelector(context)
      [] heuristic.impl \in {"a1", "a2"} -> pluginProvideSelector(context)
      [] OTHER -> <<>>

decorateSegment(heuristic, segment) ==
    CASE heuristic.impl = "segment-normalization" -> segment
      [] heuristic.impl = "star" -> <<"*">>
      [] heuristic.impl = "mark" -> <<"n", "o", "d", "e", "(", ")">>
      [] OTHER -> <<>>

\* heuristic.hook?.(...): the hooks a heuristic defines
Defines(heuristic, hook) ==
    CASE hook = "provideSelector" ->
             heuristic.impl \in {"id", "unique-attribute", "root-element", "a1", "a2"}
      [] hook = "decorateSegment" ->
             heuristic.impl \in {"segment-normalization", "star", "mark", "quiet"}
      [] hook \in {"beforeSegment", "afterGenerate"} -> heuristic.impl = "probe"
      [] OTHER -> FALSE

\* no built-in heuristic and no plugin of the model defines afterGenerate
afterGenerate(heuristic, context, xpath) == <<>>

(***************************************************************************)
(* generator.ts                                                            *)
(***************************************************************************)
\* A plausible slip: 'auto' adds the index always.
shouldIncludeIndexAlways(node, strategy) == strategy # "never"

shouldIncludeIndex(node, strategy) ==
    CASE strategy = "always" -> TRUE
      [] strategy = "never" -> FALSE
      [] OTHER -> hasSameTagSiblings(node)

buildSegment(node, options) ==
    LET segment == toLowerCase(doc.tagName[node])
    IN  IF shouldIncludeIndex(node, options.minIndex)
        THEN segment \o <<"[">> \o NumberToString(getElementIndex(node)) \o <<"]">>
        ELSE segment

\* createXPathGenerator(config): the generator's options and its registry
createXPathGenerator(config) ==
    [defaults |-> config.defaultOptions,
     heuristics |-> IF Len(config.plugins) > 0
                    THEN register(DEFAULT_HEURISTICS, config.plugins)
                    ELSE DEFAULT_HEURISTICS]

\* the chain pushed by the walker loop: the parent elements of node, up to
\* and including rootElement if the walk meets it
RECURSIVE ancestorChain(_, _)
ancestorChain(node, rootElement) ==
    LET walker == parentElement(node)
    IN  IF walker = Null THEN <<>>
        ELSE IF walker = rootElement THEN <<walker>>
        ELSE <<walker>> \o ancestorChain(walker, rootElement)

\* A plausible slip: the loop does not return, the last selector wins.
RECURSIVE LastSelector(_, _)
LastSelector(heuristics, context) ==
    IF heuristics = <<>> THEN <<>>
    ELSE LET later == LastSelector(Tail(heuristics), context)
         IN  IF later # <<>> THEN later
             ELSE provideSelector(Head(heuristics), context)

\* the provideSelector loop: the first non-empty selector
RECURSIVE FirstSelector(_, _)
FirstSelector(heuristics, context) ==
    IF heuristics = <<>> THEN <<>>
    ELSE LET selector == provideSelector(Head(heuristics), context)
         IN  IF selector # <<>> THEN selector
             ELSE FirstSelector(Tail(heuristics), context)

\* the decorateSegment loop: every non-empty result replaces the segment
RECURSIVE DecorateLoop(_, _)
DecorateLoop(heuristics, segment) ==
    IF heuristics = <<>> THEN segment
    ELSE LET decorated == decorateSegment(Head(heuristics), segment)
         IN  DecorateLoop(Tail(heuristics),
                          IF decorated # <<>> THEN decorated ELSE segment)

\* the segment loop: from current up to rootElement, each segment unshifted
RECURSIVE SegmentLoop(_, _, _, _)
SegmentLoop(current, rootElement, settings, heuristics) ==
    LET segment == DecorateLoop(heuristics, buildSegment(current, settings))
    IN  IF current = rootElement \/ parentElement(current) = Null
        THEN <<segment>>
        ELSE Append(SegmentLoop(parentElement(current), rootElement, settings,
                                heuristics),
                    segment)

\* the afterGenerate loop: state is the expression and whether the segments
\* are still those of the expression
RECURSIVE AfterGenerateLoop(_, _, _)
AfterGenerateLoop(heuristics, context, state) ==
    IF heuristics = <<>> THEN state
    ELSE LET adjusted == afterGenerate(Head(heuristics), context, state.normalized)
             updated == normalizeXPath(adjusted)
         IN  AfterGenerateLoop(
                 Tail(heuristics), context,
                 IF adjusted # <<>>
                 THEN [normalized |-> updated,
                       kept |-> state.kept /\ updated = state.normalized]
                 ELSE state)

\* one invocation of a hook, with the context object it is handed
HookCall(hook, heuristic, context) ==
    [hook |-> hook, name |-> heuristic.name, context |-> context]

\* the hooks of one loop over the heuristics that cannot end early
RECURSIVE HookCallsOf(_, _, _)
HookCallsOf(hook, heuristics, context) ==
    IF heuristics = <<>> THEN <<>>
    ELSE (IF Defines(Head(heuristics), hook)
          THEN <<HookCall(hook, Head(heuristics), context)>>
          ELSE <<>>)
             \o HookCallsOf(hook, Tail(heuristics), context)

\* the provideSelector calls: the loop returns at the first selector
RECURSIVE ProvideCalls(_, _)
ProvideCalls(heuristics, context) ==
    IF heuristics = <<>> THEN <<>>
    ELSE IF ~Defines(Head(heuristics), "provideSelector")
    THEN ProvideCalls(Tail(heuristics), context)
    ELSE IF provideSelector(Head(heuristics), context) # <<>>
    THEN <<HookCall("provideSelector", Head(heuristics), context)>>
    ELSE <<HookCall("provideSelector", Head(heuristics), context)>>
             \o ProvideCalls(Tail(heuristics), context)

\* the decorateSegment calls for one node: each is handed the segment as
\* the heuristics before it left it
RECURSIVE DecorateCalls(_, _, _, _)
DecorateCalls(heuristics, current, segment, settings) ==
    IF heuristics = <<>> THEN <<>>
    ELSE LET decorated == decorateSegment(Head(heuristics), segment)
         IN  (IF Defines(Head(heuristics), "decorateSegment")
              THEN <<HookCall("decorateSegment", Head(heuristics),
                              [node |-> current, segment |-> segment,
                               indexStrategy |-> settings.minIndex])>>
              ELSE <<>>)
                 \o DecorateCalls(Tail(heuristics), current,
                                  IF decorated # <<>> THEN decorated ELSE segment,
                                  settings)

\* the hook calls of the segment loop, from current up to rootElement
RECURSIVE SegmentCalls(_, _, _)
SegmentCalls(current, baseContext, heuristics) ==
    LET context == [node |-> current, root |-> baseContext.root,
                    options |-> baseContext.options,
                    ancestors |-> baseContext.ancestors]
        calls == HookCallsOf("beforeSegment", heuristics, context)
                     \o DecorateCalls(heuristics, current,
                                      buildSegment(current, baseContext.options),
                                      baseContext.options)
    IN  IF current = baseContext.root \/ parentElement(current) = Null
        THEN calls
        ELSE calls \o SegmentCalls(parentElement(current), baseContext, heuristics)

\* every hook buildSelectorResult invokes, in the order of the calls
HookCalls(baseContext, heuristics, selector) ==
    IF selector # <<>> THEN ProvideCalls(heuristics, baseContext)
    ELSE ProvideCalls(heuristics, baseContext)
             \o SegmentCalls(baseContext.node, baseContext, heuristics)
             \o HookCallsOf("afterGenerate", heuristics, baseContext)

\* the heuristics whose provideSelector the loop calls, in the order of the
\* calls: all up to the first that supplies a selector
RECURSIVE AskedLoop(_, _)
AskedLoop(heuristics, context) ==
    IF heuristics = <<>> THEN <<>>
    ELSE IF provideSelector(Head(heuristics), context) # <<>>
         THEN <<Head(heuristics).name>>
    ELSE <<Head(heuristics).name>> \o AskedLoop(Tail(heuristics), context)

buildSelectorResult(node, settings, rootElement, heuristics) ==
    LET baseContext == [node |-> node, root |-> rootElement, options |-> settings,
                        ancestors |-> ancestorChain(node, rootElement)]
        selector == FirstSelector(heuristics, baseContext)
        segments == SegmentLoop(node, rootElement, settings, heuristics)
        xpath == <<"/">> \o Join(segments, <<"/">>)
        final == AfterGenerateLoop(heuristics, baseContext,
                                   [normalized |-> normalizeXPath(xpath), kept |-> TRUE])
    IN  IF selector # <<>>
        THEN [selector |-> normalizeXPath(selector), hasSegments |-> FALSE,
              segments |-> <<>>, asked |-> AskedLoop(heuristics, baseContext),
              hooks |-> HookCalls(baseContext, heuristics, selector)]
        ELSE [selector |-> final.normalized, hasSegments |-> final.kept,
              segments |-> IF final.kept THEN segments ELSE <<>>,
              asked |-> AskedLoop(heuristics, baseContext),
              hooks |-> HookCalls(baseContext, heuristics, selector)]

\* A plausible slip: the path that is just the context's tag is evaluated
\* like any other.
buildEvaluationPlanNoShortcut(xpath, context) ==
    LET tagName == toLowerCase(doc.tagName[context])
    IN  IF context \in Elements /\ StartsWith(xpath, <<"/">> \o tagName \o <<"/">>)
        THEN [node |-> Null,
              expression |-> <<".", "/">> \o SubSeq(xpath, Len(tagName) + 3, Len(xpath))]
        ELSE [node |-> Null, expression |-> xpath]

\* the node the plan names (Null for none) and the expression to evaluate
buildEvaluationPlan(xpath, context) ==
    LET tagName == toLowerCase(doc.tagName[context])
    IN  IF context \in Elements /\ xpath = <<"/">> \o tagName
        THEN [node |-> context, expression |-> <<>>]
        ELSE IF context \in Elements /\ StartsWith(xpath, <<"/">> \o tagName \o <<"/">>)
        THEN [node |-> Null,
              expression |-> <<".", "/">> \o SubSeq(xpath, Len(tagName) + 3, Len(xpath))]
        ELSE [node |-> Null, expression |-> xpath]

\* segment.replace(/\[\d+\]$/u, '')
stripSegmentIndex(segment) ==
    LET n == Len(segment)
        open == CHOOSE j \in 0..(n - 1) :
                    /\ j = 0 \/ segment[j] \notin DigitChars
                    /\ \A k \in (j + 1)..(n - 1) : segment[k] \in DigitChars
    IN  IF n >= 3 /\ segment[n] = "]" /\ open >= 1 /\ open < n - 1
              /\ segment[open] = "["
        THEN SubSeq(segment, 1, open - 1)
        ELSE segment

MapStrip(segments) == [i \in 1..Len(segments) |-> stripSegmentIndex(segments[i])]

\* Set.add: insertion order, no second copy
AddCandidate(candidates, candidate) ==
    IF candidate \in Range(candidates) THEN candidates
    ELSE Append(candidates, candidate)

\* the for loop over the tails segments.slice(i), i = from..length-1
RECURSIVE TailCandidates(_, _, _)
TailCandidates(candidates, segments, from) ==
    IF from > Len(segments) THEN candidates
    ELSE LET tail == SubSeq(segments, from, Len(segments))
         IN  TailCandidates(
                 AddCandidate(
                     AddCandidate(candidates, <<"/", "/">> \o Join(tail, <<"/">>)),
                     <<"/", "/">> \o Join(MapStrip(tail), <<"/">>)),
                 segments, from + 1)

\* Array.prototype.sort with (a, b) => a.length - b.length: stable
RECURSIVE InsertByLength(_, _)
InsertByLength(sorted, x) ==
    IF sorted = <<>> THEN <<x>>
    ELSE IF Len(Head(sorted)) <= Len(x)
         THEN <<Head(sorted)>> \o InsertByLength(Tail(sorted), x)
         ELSE <<x>> \o sorted

RECURSIVE SortByLength(_)
SortByLength(list) ==
    IF list = <<>> THEN <<>>
    ELSE InsertByLength(SortByLength(SubSeq(list, 1, Len(list) - 1)), list[Len(list)])

RECURSIVE NormalizeNonEmpty(_)
NormalizeNonEmpty(list) ==
    IF list = <<>> THEN <<>>
    ELSE LET candidate == normalizeXPath(Head(list))
         IN  (IF candidate # <<>> THEN <<candidate>> ELSE <<>>)
                 \o NormalizeNonEmpty(Tail(list))

\* A plausible slip: the candidates are left in construction order.
buildShortestCandidatesUnsorted(segments) ==
    IF segments = <<>> THEN <<>>
    ELSE LET absolute == <<"/">> \o Join(segments, <<"/">>)
             stripped == <<"/">> \o Join(MapStrip(segments), <<"/">>)
             candidates ==
                 TailCandidates(AddCandidate(<<absolute>>, stripped), segments, 1)
         IN  NormalizeNonEmpty(candidates)

buildShortestCandidates(segments) ==
    IF segments = <<>> THEN <<>>
    ELSE LET absolute == <<"/">> \o Join(segments, <<"/">>)
             stripped == <<"/">> \o Join(MapStrip(segments), <<"/">>)
             candidates ==
                 TailCandidates(AddCandidate(<<absolute>>, stripped), segments, 1)
         IN  SortByLength(NormalizeNonEmpty(candidates))

matchesUniqueNode(xpath, evalContext, target) ==
    LET normalized == normalizeXPath(xpath)
        plan == buildEvaluationPlan(normalized, evalContext)
        result == evaluate(plan.expression, evalContext)
    IN  IF normalized = <<>> THEN FALSE
        ELSE IF plan.node # Null THEN plan.node = target
        ELSE IF result.throws THEN FALSE
        ELSE IF Len(result.nodes) # 1 THEN FALSE
        ELSE result.nodes[1] = target

\* A plausible slip: the node found is returned whatever its type.
resolveXPathAnyNode(generator, xpath, context, options) ==
    LET normalizedPath == normalizeXPath(xpath)
        settings == normalizeOptions(mergeOptions(generator.defaults, options))
        evalContext == IF settings.root # Null THEN settings.root
                       ELSE IF context # Null THEN context
                       ELSE DocumentNode
        plan == buildEvaluationPlan(normalizedPath, evalContext)
        result == evaluate(plan.expression, evalContext)
    IN  IF normalizedPath = <<>> THEN Null
        ELSE IF doc.n = 0 THEN Null
        ELSE IF plan.node # Null THEN plan.node
        ELSE IF result.throws THEN Null
        ELSE IF result.nodes = <<>> THEN Null
        ELSE result.nodes[1]

\* A plausible slip: the context argument is looked at before options.root.
resolveXPathContextFirst(generator, xpath, context, options) ==
    LET normalizedPath == normalizeXPath(xpath)
        settings == normalizeOptions(mergeOptions(generator.defaults, options))
        evalContext == IF context # Null THEN context
                       ELSE IF settings.root # Null THEN settings.root
                       ELSE DocumentNode
        plan == buildEvaluationPlan(normalizedPath, evalContext)
        result == evaluate(plan.expression, evalContext)
    IN  IF normalizedPath = <<>> THEN Null
        ELSE IF doc.n = 0 THEN Null
        ELSE IF plan.node # Null THEN plan.node
        ELSE IF result.throws THEN Null
        ELSE IF result.nodes = <<>> THEN Null
        ELSE IF isElement(result.nodes[1]) THEN result.nodes[1]
        ELSE Null

\* resolveXPath(xpath, context, options) of a generator: the element, or Null
resolveXPath(generator, xpath, context, options) ==
    LET normalizedPath == normalizeXPath(xpath)
        settings == normalizeOptions(mergeOptions(generator.defaults, options))
        evalContext == IF settings.root # Null THEN settings.root
                       ELSE IF context # Null THEN context
                       ELSE DocumentNode
        plan == buildEvaluationPlan(normalizedPath, evalContext)
        result == evaluate(plan.expression, evalContext)
    IN  IF normalizedPath = <<>> THEN Null
        ELSE IF doc.n = 0 THEN Null
        ELSE IF plan.node # Null THEN plan.node
        ELSE IF result.throws THEN Null
        ELSE IF result.nodes = <<>> THEN Null
        ELSE IF isElement(result.nodes[1]) THEN result.nodes[1]
        ELSE Null

\* the expressions resolveXPath hands to doc.evaluate: none or one
resolveXPathEvaluations(generator, xpath, context, options) ==
    LET normalizedPath == normalizeXPath(xpath)
        settings == normalizeOptions(mergeOptions(generator.defaults, options))
        evalContext == IF settings.root # Null THEN settings.root
                       ELSE IF context # Null THEN context
                       ELSE DocumentNode
        plan == buildEvaluationPlan(normalizedPath, evalContext)
    IN  IF normalizedPath = <<>> THEN <<>>
        ELSE IF doc.n = 0 THEN <<>>
        ELSE IF plan.node # Null THEN <<>>
        ELSE <<plan.expression>>

\* isXPathMatch(node, xpath, context, options) of a generator
isXPathMatch(generator, node, xpath, context, options) ==
    IF ~isElement(node) THEN FALSE
    ELSE resolveXPath(generator, xpath,
                      IF context # Null THEN context ELSE DocumentNode,
                      options) = node

\* a call that throws returns no expression; asked lists the heuristics
\* whose provideSelector ran during the call
Throws == [outcome |-> "throws", xpath |-> <<>>, asked |-> <<>>, hooks |-> <<>>]

Returns(xpath, result) ==
    [outcome |-> "ok", xpath |-> xpath, asked |-> result.asked,
     hooks |-> result.hooks]

ReturnsSelector(result) == Returns(result.selector, result)

\* A plausible slip: a candidate that contains some node is taken.
RECURSIVE findCommonAncestorElementSome(_, _)
findCommonAncestorElementSome(nodes, candidate) ==
    IF candidate = Null THEN Null
    ELSE IF \E i \in 1..Len(nodes) : contains(candidate, nodes[i]) THEN candidate
    ELSE findCommonAncestorElementSome(nodes, parentElement(candidate))

\* internal/dom.ts, findCommonAncestorElement: the while loop, candidate
\* starting as nodes[0]
RECURSIVE findCommonAncestorElement(_, _)
findCommonAncestorElement(nodes, candidate) ==
    IF candidate = Null THEN Null
    ELSE IF \A i \in 1..Len(nodes) : contains(candidate, nodes[i]) THEN candidate
    ELSE findCommonAncestorElement(nodes, parentElement(candidate))

\* nodes.filter(isElement)
RECURSIVE FilterElements(_)
FilterElements(nodes) ==
    IF nodes = <<>> THEN <<>>
    ELSE (IF isElement(Head(nodes)) THEN <<Head(nodes)>> ELSE <<>>)
             \o FilterElements(Tail(nodes))

ReturnsNull == [outcome |-> "null", xpath |-> <<>>, asked |-> <<>>, hooks |-> <<>>]

\* A plausible slip: the containment test before the walk is left out.
getXPathForNodeUnguarded(generator, node, options) ==
    ReturnsSelector(
        buildSelectorResult(
            node, normalizeOptions(mergeOptions(generator.defaults, options)),
            getRootElement(node,
                           normalizeOptions(mergeOptions(generator.defaults, options))),
            generator.heuristics))

\* getXPathForNode(node, options) of a generator, node an element
getXPathForNode(generator, node, options) ==
    LET settings == normalizeOptions(mergeOptions(generator.defaults, options))
        rootElement == getRootElement(node, settings)
    IN  IF rootElement = Null THEN Throws
        ELSE IF ~contains(rootElement, node) THEN Throws
        ELSE ReturnsSelector(buildSelectorResult(node, settings, rootElement,
                                                 generator.heuristics))

\* findCommonAncestorXPath from the filtered elements on
CommonAncestorXPath(generator, ancestor, options) ==
    IF ancestor = Null THEN ReturnsNull
    ELSE getXPathForNode(generator, ancestor, options)

CommonAncestorOf(generator, elements, options) ==
    IF elements = <<>> THEN ReturnsNull
    ELSE CommonAncestorXPath(generator,
                             findCommonAncestorElement(elements, elements[1]),
                             options)

findCommonAncestorXPath(generator, nodes, options) ==
    IF nodes = <<>> THEN ReturnsNull
    ELSE CommonAncestorOf(generator, FilterElements(nodes), options)

\* the for loop over the candidates: the first that matches, or Null
RECURSIVE FirstMatching(_, _, _)
FirstMatching(candidates, evalContext, node) ==
    IF candidates = <<>> THEN <<>>
    ELSE IF matchesUniqueNode(Head(candidates), evalContext, node)
         THEN Head(candidates)
         ELSE FirstMatching(Tail(candidates), evalContext, node)

getShortestUniqueXPath(generator, node, options) ==
    LET settings == normalizeOptions(mergeOptions(generator.defaults, options))
        rootElement == getRootElement(node, settings)
        result == buildSelectorResult(node, settings, rootElement,
                                      generator.heuristics)
        evalContext == IF settings.root # Null THEN settings.root ELSE rootElement
        found == FirstMatching(buildShortestCandidates(result.segments),
                               evalContext, node)
    IN  IF rootElement = Null THEN Throws
        ELSE IF ~contains(rootElement, node) THEN Throws
        ELSE IF ~result.hasSegments \/ result.segments = <<>>
             THEN ReturnsSelector(result)
        ELSE IF found # <<>> THEN Returns(found, result)
        ELSE ReturnsSelector(result)

(***************************************************************************)
(* Documents.  Element 1 is the document element; the parent of an         *)
(* element has a smaller number, and siblings stand in the order of their  *)
(* numbers.                                                                *)
(***************************************************************************)
NoAttributes == [a \in {} |-> <<>>]

VALUE_x == <<"x">>

\* an attribute value holding a run of three slashes
VALUE_slashes == <<"/", "/", "/">>

Shapes(n) ==
    {p \in [1..n -> 0..n] :
        /\ p[1] = DocumentNode
        /\ \A i \in 2..n : p[i] >= 1 /\ p[i] < i}

TagChoices(n) ==
    {t \in [1..n -> {TAG_HTML, TAG_DIV, TAG_P}] :
        /\ t[1] = TAG_HTML
        /\ \A i \in 2..n : t[i] # TAG_HTML}

AttributeProfiles ==
    {NoAttributes,
     ATTR_id :> VALUE_x,
     ATTR_id :> VALUE_slashes,
     ATTR_name :> VALUE_x,
     ATTR_class :> VALUE_x,
     (ATTR_name :> VALUE_x) @@ (ATTR_class :> VALUE_x),
     (ATTR_id :> VALUE_x) @@ (ATTR_name :> VALUE_x),
     (ATTR_id :> <<>>) @@ (ATTR_name :> VALUE_x)}

AttributeChoices(n, attributed) ==
    {a \in [1..n -> AttributeProfiles] :
        Cardinality({i \in 1..n : a[i] # NoAttributes}) <= attributed}

\* the documents of up to MaxElems elements in which at most attributed
\* elements carry attributes
Documents(attributed) ==
    UNION {{[n |-> n, parent |-> p, tagName |-> t, attrs |-> a] :
                p \in Shapes(n), t \in TagChoices(n),
                a \in AttributeChoices(n, attributed)} :
           n \in 1..MaxElems}

(***************************************************************************)
(* Calls on the generators of a page.  gens[1] is the module's default     *)
(* generator; last is the latest call with its arguments and its result.   *)
(***************************************************************************)
MaxGenerators == 2

NoConfig == [defaultOptions |-> NoOptions, plugins |-> <<>>]

PluginConfigs ==
    {[defaultOptions |-> NoOptions, plugins |-> plugins] :
        plugins \in {<<PluginA1>>, <<PluginB>>, <<PluginB, PluginA1>>}}

GivenOptions(preferId, attributes, minIndex, root) ==
    [given |-> TRUE, preferId |-> preferId,
     preferUniqueAttributes |->
         [given |-> attributes # <<>>, list |-> attributes],
     minIndex |-> minIndex, root |-> root]

\* the options of the calls on documents without attributes
StructOptions ==
    {NoOptions} \cup
    {GivenOptions("undefined", <<>>, minIndex, root) :
        minIndex \in {"undefined", "auto", "always", "never"},
        root \in {Null} \cup Elements}

\* the options of the calls on documents with attributes: no custom root
AttrOptions ==
    {NoOptions,
     GivenOptions("false", <<>>, "undefined", Null),
     GivenOptions("undefined", <<ATTR_class, ATTR_name>>, "undefined", Null)}

InitDocs(Docs) ==
    /\ doc \in Docs
    /\ gens = <<createXPathGenerator(NoConfig)>>
    /\ last = NoCall
    /\ heap = <<>>
    /\ regs = <<>>

\* The calls below change nothing but last, and what one returns does not
\* depend on the calls before it: a page makes one call on a node and may
\* resolve what it got.
NoCallYet == last.op \in {"none", "createXPathGenerator"}

CreateXPathGenerator ==
    /\ NoCallYet
    /\ Len(gens) < MaxGenerators
    /\ \E config \in PluginConfigs :
          /\ gens' = Append(gens, createXPathGenerator(config))
          /\ last' = [op |-> "createXPathGenerator", gen |-> Len(gens) + 1]
    /\ UNCHANGED <<doc, heap, regs>>

GetXPathForNode(Options) ==
    /\ NoCallYet
    /\ \E g \in 1..Len(gens), node \in Elements, options \in Options :
          LET result == getXPathForNode(gens[g], node, options)
          IN  last' = [op |-> "getXPathForNode", gen |-> g, node |-> node,
                       options |-> options, outcome |-> result.outcome,
                       xpath |-> result.xpath, asked |-> result.asked,
                       hooks |-> result.hooks]
    /\ UNCHANGED <<doc, gens, heap, regs>>

GetShortestUniqueXPath(Options) ==
    /\ NoCallYet
    /\ \E g \in 1..Len(gens), node \in Elements, options \in Options :
          LET result == getShortestUniqueXPath(gens[g], node, options)
          IN  last' = [op |-> "getShortestUniqueXPath", gen |-> g, node |-> node,
                       options |-> options, outcome |-> result.outcome,
                       xpath |-> result.xpath, asked |-> result.asked,
                       hooks |-> result.hooks]
    /\ UNCHANGED <<doc, gens, heap, regs>>

\* the caller resolves the expression the latest call returned, with a
\* context of its choice and either no options or those of that call
ResolveXPath(Contexts) ==
    /\ last.op \in {"getXPathForNode", "getShortestUniqueXPath"}
    /\ last.outcome = "ok"
    /\ \E context \in Contexts, options \in {NoOptions, last.options} :
          last' = [op |-> "resolveXPath", gen |-> last.gen, xpath |-> last.xpath,
                   context |-> context, options |-> options,
                   node |-> resolveXPath(gens[last.gen], last.xpath, context,
                                         options),
                   from |-> last]
    /\ UNCHANGED <<doc, gens, heap, regs>>

Init == InitDocs(Documents(0))

Next ==
    \/ GetXPathForNode(StructOptions)
    \/ GetShortestUniqueXPath(StructOptions)
    \/ ResolveXPath({Null} \cup Elements)

Spec == Init /\ [][Next]_vars

InitAttr == InitDocs(Documents(MaxAttrElems))

NextAttr ==
    \/ CreateXPathGenerator
    \/ GetXPathForNode(AttrOptions)
    \/ ResolveXPath({Null, DocumentNode})

SpecAttr == InitAttr /\ [][NextAttr]_vars

(***************************************************************************)
(* What the documents say of a node, for the properties below: read off    *)
(* the document, not computed by the generator.                            *)
(***************************************************************************)
SameTagSiblings(e) ==
    {x \in Elements \ {e} :
        doc.parent[x] = doc.parent[e] /\ doc.tagName[x] = doc.tagName[e]}

\* 1 plus the number of preceding siblings with the same tag
PositionAmongSameTag(e) == 1 + Cardinality({x \in SameTagSiblings(e) : x < e})

IndexedSegment(e, strategy) ==
    toLowerCase(doc.tagName[e]) \o
        (IF strategy = "always" \/ (strategy = "auto" /\ SameTagSiblings(e) # {})
         THEN <<"[">> \o NumberToString(PositionAmongSameTag(e)) \o <<"]">>
         ELSE <<>>)

\* the segments from root down to e, e being root or inside it
RECURSIVE SegmentsFrom(_, _, _)
SegmentsFrom(root, e, strategy) ==
    IF e = root THEN <<IndexedSegment(e, strategy)>>
    ELSE Append(SegmentsFrom(root, doc.parent[e], strategy),
                IndexedSegment(e, strategy))

StructuralPath(root, e, strategy) ==
    <<"/">> \o Join(SegmentsFrom(root, e, strategy), <<"/">>)

StrategyOf(options) ==
    IF options.minIndex = "undefined" THEN "auto" ELSE options.minIndex

RootOf(options) == IF options.root \in Elements THEN options.root ELSE 1

\* e carries the attribute with a non-empty value no other element of the
\* document carries
UniqueInDocument(e, attribute) ==
    /\ hasAttribute(e, attribute)
    /\ getAttribute(e, attribute) # <<>>
    /\ Cardinality({x \in Elements :
                       /\ hasAttribute(x, attribute)
                       /\ getAttribute(x, attribute) = getAttribute(e, attribute)}) = 1

\* //*[@attribute="value"], for a value without a double quote
AttributeSelector(e, attribute) ==
    <<"/", "/", "*", "[", "@">> \o attribute \o <<"=", "\"">>
        \o getAttribute(e, attribute) \o <<"\"", "]">>

AttributeListOf(options) ==
    IF options.preferUniqueAttributes.list # <<>>
    THEN options.preferUniqueAttributes.list
    ELSE DEFAULT_UNIQUE_ATTRIBUTES

\* the selector of the first applicable rule: id, listed attribute in list
\* order, /tag for the root, structural path
PrioritySelector(e, options) ==
    LET attributes == AttributeListOf(options)
        unique == {i \in 1..Len(attributes) : UniqueInDocument(e, attributes[i])}
    IN  IF options.preferId # "false" /\ UniqueInDocument(e, ATTR_id)
        THEN AttributeSelector(e, ATTR_id)
        ELSE IF unique # {}
        THEN AttributeSelector(e, attributes[CHOOSE i \in unique :
                                                \A j \in unique : i <= j])
        ELSE IF e = 1 THEN <<"/">> \o toLowerCase(doc.tagName[e])
        ELSE StructuralPath(1, e, StrategyOf(options))

\* the nodes an expression selects when the library evaluates it in a scope
NodesInScope(xpath, scope) ==
    IF buildEvaluationPlan(xpath, scope).node # Null
    THEN <<buildEvaluationPlan(xpath, scope).node>>
    ELSE evaluate(buildEvaluationPlan(xpath, scope).expression, scope).nodes

HasPlugin(g) == \E i \in 1..Len(gens[g].heuristics) : gens[g].heuristics[i].impl = "a1"

Got(op) == last.op = op /\ last.outcome = "ok"

Resolved(op) ==
    last.op = "resolveXPath" /\ last.from.op = op /\ last.from.outcome = "ok"

(***************************************************************************)
(* C1: with the default generator and default options, resolving what      *)
(* getXPathForNode returned for an element gives that element back.        *)
(***************************************************************************)
C1_RoundTripDefaultRoot ==
    (/\ Resolved("getXPathForNode")
     /\ last.from.gen = 1
     /\ last.from.options = NoOptions
     /\ last.options = NoOptions
     /\ last.context = Null)
        => last.node = last.from.node

\* an element whose unique id holds three slashes got a selector with two,
\* and the selector resolves to no element
C1_Witness ==
    /\ Resolved("getXPathForNode")
    /\ last.from.gen = 1
    /\ last.from.options = NoOptions
    /\ last.options = NoOptions
    /\ last.context = Null
    /\ idOf(last.from.node) = VALUE_slashes
    /\ last.xpath = <<"/", "/", "*", "[", "@", "i", "d", "=", "\"", "/", "/", "\"", "]">>
    /\ last.node = Null

(***************************************************************************)
(* C2: the expression getShortestUniqueXPath returns, whatever the index   *)
(* strategy and the root, selects in the resolution scope exactly one      *)
(* node, the element it was asked for.                                     *)
(***************************************************************************)
C2_ShortestUnique ==
    Got("getShortestUniqueXPath")
        => NodesInScope(last.xpath,
                        IF last.options.root \in Elements THEN last.options.root
                        ELSE DocumentNode) = <<last.node>>

\* under 'never' the second of two sibling <p> gets a path that selects both
C2_Witness ==
    /\ Got("getShortestUniqueXPath")
    /\ last.options.minIndex = "never"
    /\ last.options.root = Null
    /\ SameTagSiblings(last.node) # {}
    /\ Len(NodesInScope(last.xpath, DocumentNode)) = 2

C8_SelectorPriority ==
    (Got("getXPathForNode") /\ last.gen = 1)
        => last.xpath = PrioritySelector(last.node, last.options)

\* a document-unique id of three slashes: the selector returned is not the
\* id selector of that value
C8_Witness ==
    /\ Got("getXPathForNode")
    /\ last.gen = 1
    /\ last.options = NoOptions
    /\ UniqueInDocument(last.node, ATTR_id)
    /\ last.xpath # AttributeSelector(last.node, ATTR_id)

(***************************************************************************)
(* C9: with an element r as options.root, whatever its siblings and the    *)
(* index strategy, resolving with context r what getXPathForNode returned  *)
(* for an element of r gives that element back.                            *)
(***************************************************************************)
C9_RoundTripCustomRoot ==
    (/\ Resolved("getXPathForNode")
     /\ last.from.options.root \in Elements
     /\ last.context = last.from.options.root
     /\ last.options = NoOptions)
        => last.node = last.from.node

\* under 'always' the root segment carries an index, and the path resolves
\* to no element
C9_Witness ==
    /\ Resolved("getXPathForNode")
    /\ last.from.options.root \in Elements
    /\ last.from.options.root # last.from.node
    /\ last.from.options.minIndex = "always"
    /\ last.context = last.from.options.root
    /\ last.options = NoOptions
    /\ last.node = Null

(***************************************************************************)
(* C10: in a structural path every segment carries an index under          *)
(* 'always', none under 'never', and under 'auto' those of the nodes with  *)
(* a sibling of the same tag; the index is 1 plus the number of preceding  *)
(* siblings of the same tag.                                               *)
(***************************************************************************)
C10_IndexPolicy ==
    (Got("getXPathForNode") /\ last.node # RootOf(last.options))
        => last.xpath = StructuralPath(RootOf(last.options), last.node,
                                       StrategyOf(last.options))

\* the second of two sibling <p> under 'auto': the path ends in p[2]
C10_Witness ==
    /\ Got("getXPathForNode")
    /\ last.options.minIndex = "auto"
    /\ doc.tagName[last.node] = TAG_P
    /\ \E x \in SameTagSiblings(last.node) : x < last.node
    /\ SubSeq(last.xpath, Len(last.xpath) - 3, Len(last.xpath))
           = <<"p", "[", "2", "]">>

\* the same node under 'never': no index in the path
C10_WitnessNever ==
    /\ Got("getXPathForNode")
    /\ last.options.minIndex = "never"
    /\ doc.tagName[last.node] = TAG_P
    /\ \E x \in SameTagSiblings(last.node) : x < last.node
    /\ ~Contains(last.xpath, "[")

\* the elements on the way from e up to the document element, e included
RECURSIVE SelfAndAncestors(_)
SelfAndAncestors(e) ==
    IF doc.parent[e] = DocumentNode THEN {e}
    ELSE {e} \cup SelfAndAncestors(doc.parent[e])

(***************************************************************************)
(* C11: getXPathForNode and getShortestUniqueXPath throw, and return no    *)
(* expression, whenever the resolved root neither is the node nor contains *)
(* it; no heuristic has been asked by then.                                *)
(***************************************************************************)
C11_ScopeViolation ==
    (/\ last.op \in {"getXPathForNode", "getShortestUniqueXPath"}
     /\ RootOf(last.options) \notin SelfAndAncestors(last.node))
        => (last.outcome = "throws" /\ last.xpath = <<>> /\ last.asked = <<>>)

\* a call with a root that is a sibling subtree of the node threw
C11_Witness ==
    /\ last.op = "getXPathForNode"
    /\ last.options.root \in Elements
    /\ last.options.root \notin SelfAndAncestors(last.node)
    /\ last.outcome = "throws"

\* the same for getShortestUniqueXPath
C11_WitnessShortest ==
    /\ last.op = "getShortestUniqueXPath"
    /\ last.options.root \in Elements
    /\ last.options.root \notin SelfAndAncestors(last.node)
    /\ last.outcome = "throws"

(***************************************************************************)
(* The options on their own: normalizeOptions of an options object, and    *)
(* mergeOptions of a generator's defaultOptions with the options of a      *)
(* call.  A field of an options object is absent ("undefined", Null, a     *)
(* list that is not given) or has a value; a given list may be empty.      *)
(***************************************************************************)
ListInputs ==
    {[given |-> FALSE, list |-> <<>>],
     [given |-> TRUE, list |-> <<>>],
     [given |-> TRUE, list |-> <<ATTR_name>>],
     [given |-> TRUE, list |-> <<ATTR_class, ATTR_name>>]}

OptionInputs ==
    {NoOptions} \cup
    [given : {TRUE},
     preferId : {"undefined", "true", "false"},
     preferUniqueAttributes : ListInputs,
     minIndex : {"undefined", "auto", "never"},
     root : {Null, DocumentNode}]

InitOptions ==
    /\ doc = NoDoc
    /\ gens = <<>>
    /\ last = NoCall
    /\ heap = <<>>
    /\ regs = <<>>

NormalizeOptions ==
    /\ last = NoCall
    /\ \E options \in OptionInputs :
          last' = [op |-> "normalizeOptions", options |-> options,
                   result |-> normalizeOptions(options)]
    /\ UNCHANGED <<doc, gens, heap, regs>>

\* what every function of a generator starts with
MergeOptions ==
    /\ last = NoCall
    /\ \E defaults \in OptionInputs, overrides \in OptionInputs :
          last' = [op |-> "mergeOptions", defaults |-> defaults,
                   overrides |-> overrides,
                   result |-> normalizeOptions(mergeOptions(defaults, overrides))]
    /\ UNCHANGED <<doc, gens, heap, regs>>

NextOptions == NormalizeOptions \/ MergeOptions

SpecOptions == InitOptions /\ [][NextOptions]_vars

(***************************************************************************)
(* C12: without options, normalizeOptions gives preferId true, the six     *)
(* attributes data-testid, data-test, aria-label, aria-labelledby, name,   *)
(* class in this order, minIndex auto, no root and no namespace resolver.  *)
(***************************************************************************)
C12_OptionDefaults ==
    (last.op = "normalizeOptions" /\ last.options = NoOptions)
        => last.result =
               [preferId |-> TRUE,
                preferUniqueAttributes |->
                    <<<<"d", "a", "t", "a", "-", "t", "e", "s", "t", "i", "d">>, <<"d", "a", "t", "a", "-", "t", "e", "s", "t">>, <<"a", "r", "i", "a", "-", "l", "a", "b", "e", "l">>,
                      <<"a", "r", "i", "a", "-", "l", "a", "b", "e", "l", "l", "e", "d", "b", "y">>, ATTR_name, ATTR_class>>,
                minIndex |-> "auto", root |-> Null, namespaceResolver |-> "null"]

\* the list that comes out has five entries, aria-label followed by name
C12_Witness ==
    /\ last.op = "normalizeOptions"
    /\ last.options = NoOptions
    /\ Len(last.result.preferUniqueAttributes) = 5
    /\ last.result.preferUniqueAttributes[3] = <<"a", "r", "i", "a", "-", "l", "a", "b", "e", "l">>
    /\ last.result.preferUniqueAttributes[4] = ATTR_name

(***************************************************************************)
(* C13: after the merge of a generator's defaultOptions with the options   *)
(* of a call, every field the call gives wins; a non-empty list of the     *)
(* call replaces the list of the defaultOptions, and with no list or an    *)
(* empty list in the call the list of the defaultOptions is in effect.     *)
(***************************************************************************)
C13_OptionMerge ==
    (last.op = "mergeOptions" /\ last.defaults.given /\ last.overrides.given)
        => /\ last.overrides.preferId # "undefined"
                 => last.result.preferId = (last.overrides.preferId = "true")
           /\ last.overrides.minIndex # "undefined"
                 => last.result.minIndex = last.overrides.minIndex
           /\ last.overrides.root # Null
                 => last.result.root = last.overrides.root
           /\ last.overrides.preferUniqueAttributes.list # <<>>
                 => last.result.preferUniqueAttributes
                        = last.overrides.preferUniqueAttributes.list
           /\ (/\ last.overrides.preferUniqueAttributes.list = <<>>
               /\ last.defaults.preferUniqueAttributes.list # <<>>)
                 => last.result.preferUniqueAttributes
                        = last.defaults.preferUniqueAttributes.list

\* the call gives an empty list, the defaultOptions a list of their own, and
\* the built-in list is what comes out
C13_Witness ==
    /\ last.op = "mergeOptions"
    /\ last.defaults.given
    /\ last.overrides.given
    /\ last.overrides.preferUniqueAttributes = [given |-> TRUE, list |-> <<>>]
    /\ last.defaults.preferUniqueAttributes.list = <<ATTR_class, ATTR_name>>
    /\ last.result.preferUniqueAttributes = DEFAULT_UNIQUE_ATTRIBUTES

(***************************************************************************)
(* utils/element-helpers.ts: cssToXPath.  null is the empty string here:   *)
(* no function below returns an empty expression.                          *)
(***************************************************************************)
CLASS_ATTRIBUTE_WRAPPER == <<"c", "o", "n", "c", "a", "t", "(", "'", " ", "'", ",", " ", "n", "o", "r", "m", "a", "l", "i", "z", "e", "-", "s", "p", "a", "c", "e", "(", "@", "c", "l", "a", "s", "s", ")", ",", " ", "'", " ", "'", ")">>

\* \w
WordChars == LowerChars \cup UpperChars \cup DigitChars \cup {"_"}

\* the loop of splitSelectors from position i on
RECURSIVE SplitSelectorsLoop(_, _, _, _, _)
SplitSelectorsLoop(selector, i, current, depth, result) ==
    IF i > Len(selector)
    THEN IF Trim(current) # <<>> THEN Append(result, Trim(current)) ELSE result
    ELSE IF selector[i] = "["
    THEN SplitSelectorsLoop(selector, i + 1, Append(current, "["), depth + 1, result)
    ELSE IF selector[i] = "]"
    THEN SplitSelectorsLoop(selector, i + 1, Append(current, "]"),
                            IF depth > 0 THEN depth - 1 ELSE 0, result)
    ELSE IF selector[i] = "," /\ depth = 0
    THEN SplitSelectorsLoop(selector, i + 1, <<>>, depth,
                            IF Trim(current) # <<>>
                            THEN Append(result, Trim(current)) ELSE result)
    ELSE SplitSelectorsLoop(selector, i + 1, Append(current, selector[i]), depth,
                            result)

\* A plausible slip: every comma splits, inside brackets too.
RECURSIVE splitSelectorsAtEveryComma(_)
splitSelectorsAtEveryComma(selector) ==
    IF ~Contains(selector, ",")
    THEN IF Trim(selector) # <<>> THEN <<Trim(selector)>> ELSE <<>>
    ELSE LET comma == IndexOf(selector, 1, ",")
             first == Trim(SubSeq(selector, 1, comma - 1))
         IN  (IF first # <<>> THEN <<first>> ELSE <<>>)
                 \o splitSelectorsAtEveryComma(SubSeq(selector, comma + 1,
                                                      Len(selector)))

splitSelectors(selector) == SplitSelectorsLoop(selector, 1, <<>>, 0, <<>>)

\* flush() of tokenizeSelector: the tokens and the buffer after it
Flush(tokens, buffer, pending) ==
    IF Trim(buffer) # <<>>
    THEN [tokens |-> Append(tokens, [selector |-> Trim(buffer),
                                     combinator |-> pending]),
          buffer |-> <<>>]
    ELSE [tokens |-> tokens, buffer |-> buffer]

\* the loop of tokenizeSelector from position i on
RECURSIVE TokenizeLoop(_, _, _, _, _, _)
RECURSIVE TokenizeFlushed(_, _, _, _, _)
TokenizeLoop(selector, i, buffer, depth, pending, tokens) ==
    IF i > Len(selector) THEN Flush(tokens, buffer, pending).tokens
    ELSE IF selector[i] = "["
    THEN TokenizeLoop(selector, i + 1, Append(buffer, "["), depth + 1, pending, tokens)
    ELSE IF selector[i] = "]"
    THEN TokenizeLoop(selector, i + 1, Append(buffer, "]"),
                      IF depth > 0 THEN depth - 1 ELSE 0, pending, tokens)
    ELSE IF depth = 0 /\ selector[i] = ">"
    THEN TokenizeFlushed(selector, i + 1, depth, "child",
                         Flush(tokens, buffer, pending))
    ELSE IF depth = 0 /\ selector[i] = " "
    THEN IF buffer # <<>>
         THEN TokenizeFlushed(selector, RunEnd(selector, i + 1, {" "}), depth,
                              "descendant", Flush(tokens, buffer, pending))
         ELSE TokenizeLoop(selector, RunEnd(selector, i + 1, {" "}), buffer, depth,
                           pending, tokens)
    ELSE TokenizeLoop(selector, i + 1, Append(buffer, selector[i]), depth, pending,
                      tokens)
TokenizeFlushed(selector, i, depth, pending, flushed) ==
    TokenizeLoop(selector, i, flushed.buffer, depth, pending, flushed.tokens)

tokenizeSelector(selector) == TokenizeLoop(selector, 1, <<>>, 0, "descendant", <<>>)

\* value.replace(/^[Quotes]|[Quotes]$/g, '')
StripQuotes(value, Quotes) ==
    LET front == IF value # <<>> /\ value[1] \in Quotes THEN Tail(value)
                 ELSE value
    IN  IF front # <<>> /\ front[Len(front)] \in Quotes
        THEN SubSeq(front, 1, Len(front) - 1)
        ELSE front

\* the cases of the switch on the operator, attr and value being matched
AttributeTest(attr, operator, value) ==
    CASE operator = <<"=">> -> <<"@">> \o attr \o <<"=", "\"">> \o value \o <<"\"">>
      [] operator = <<"^", "=">> ->
             <<"s", "t", "a", "r", "t", "s", "-", "w", "i", "t", "h", "(", "@">> \o attr \o <<",", " ", "\"">> \o value \o <<"\"", ")">>
      [] operator = <<"$", "=">> ->
             <<"s", "u", "b", "s", "t", "r", "i", "n", "g", "(", "@">> \o attr \o <<",", " ", "s", "t", "r", "i", "n", "g", "-", "l", "e", "n", "g", "t", "h", "(", "@">> \o attr
                 \o <<")", " ", "-", " ", "s", "t", "r", "i", "n", "g", "-", "l", "e", "n", "g", "t", "h", "(", "\"">> \o value \o <<"\"", ")", " ", "+", " ", "1", ")", " ", "=", " ", "\"">>
                 \o value \o <<"\"">>
      [] operator = <<"*", "=">> ->
             <<"c", "o", "n", "t", "a", "i", "n", "s", "(", "@">> \o attr \o <<",", " ", "\"">> \o value \o <<"\"", ")">>
      [] operator = <<"~", "=">> ->
             <<"c", "o", "n", "t", "a", "i", "n", "s", "(", "c", "o", "n", "c", "a", "t", "(", "'", " ", "'", ",", " ", "n", "o", "r", "m", "a", "l", "i", "z", "e", "-", "s", "p", "a", "c", "e", "(", "@">> \o attr \o <<")", ",", " ", "'", " ", "'", ")", ",", " ", "'", " ">>
                 \o value \o <<" ", "'", ")">>
      [] operator = <<"|", "=">> ->
             <<"(", "@">> \o attr \o <<"=", "\"">> \o value \o <<"\"", " ", "o", "r", " ", "s", "t", "a", "r", "t", "s", "-", "w", "i", "t", "h", "(", "@">> \o attr
                 \o <<",", " ", "\"">> \o value \o <<"-", "\"", ")", ")">>
      [] OTHER -> <<"@">> \o attr

\* body.match(/^(\w[\w-]*)([*^$|~]?=)?(.+)?$/), the name ending before j and
\* the operator before k
AttributeMatched(body, j, k) ==
    IF k = j THEN <<"@">> \o SubSeq(body, 1, j - 1)
    ELSE AttributeTest(SubSeq(body, 1, j - 1), SubSeq(body, j, k - 1),
                       StripQuotes(Trim(SubSeq(body, k, Len(body))), {"'", "\""}))

OperatorEnd(body, j) ==
    IF CharAt(body, j) = "=" THEN j + 1
    ELSE IF CharAt(body, j) \in {"*", "^", "$", "|", "~"} /\ CharAt(body, j + 1) = "="
    THEN j + 2
    ELSE j

AttributeNamed(body, j) == AttributeMatched(body, j, OperatorEnd(body, j))

parseAttributeSelector(body) ==
    IF body = <<>> \/ body[1] \notin WordChars THEN <<"@", "*">>
    ELSE AttributeNamed(body, RunEnd(body, 2, NameChars))

\* SIMPLE_SELECTOR_TOKEN = /^[^.#[]+/ matched against s from position i on: the
\* position after the match (i itself when nothing matches)
RECURSIVE SimpleTokenEnd(_, _)
SimpleTokenEnd(s, i) ==
    IF i <= Len(s) /\ s[i] \notin {".", "#", "["} THEN SimpleTokenEnd(s, i + 1)
    ELSE i

NoPredicates == [ok |-> FALSE, predicates |-> <<>>]

\* the while loop of buildSimpleSelectorXPath
RECURSIVE BuildPredicates(_, _)
RECURSIVE BuildNamed(_, _, _, _)
RECURSIVE BuildAttribute(_, _, _)
RECURSIVE BuildPseudo(_, _, _)
BuildPredicates(remaining, predicates) ==
    IF remaining = <<>> THEN [ok |-> TRUE, predicates |-> predicates]
    ELSE IF remaining[1] \in {"#", "."}
    THEN BuildNamed(remaining, predicates, remaining[1], SimpleTokenEnd(remaining, 2))
    ELSE IF remaining[1] = "["
    THEN BuildAttribute(remaining, predicates, IndexOf(remaining, 1, "]"))
    ELSE IF remaining[1] = ":" /\ StartsWith(remaining, <<":", "n", "t", "h", "-", "o", "f", "-", "t", "y", "p", "e", "(">>)
    THEN BuildPseudo(remaining, predicates, RunEnd(remaining, 14, DigitChars))
    ELSE NoPredicates
\* an id or a class whose value ends before position end
BuildNamed(remaining, predicates, ch, end) ==
    IF end = 2 THEN NoPredicates
    ELSE BuildPredicates(
             SubSeq(remaining, end, Len(remaining)),
             Append(predicates,
                    IF ch = "#"
                    THEN <<"@", "i", "d", "=", "\"">> \o SubSeq(remaining, 2, end - 1) \o <<"\"">>
                    ELSE <<"c", "o", "n", "t", "a", "i", "n", "s", "(">> \o CLASS_ATTRIBUTE_WRAPPER \o <<",", " ", "'", " ">>
                             \o SubSeq(remaining, 2, end - 1) \o <<" ", "'", ")">>))
\* an attribute selector closed at position closingIndex
BuildAttribute(remaining, predicates, closingIndex) ==
    IF closingIndex = 0 THEN NoPredicates
    ELSE BuildPredicates(
             SubSeq(remaining, closingIndex + 1, Len(remaining)),
             Append(predicates,
                    parseAttributeSelector(
                        Trim(SubSeq(remaining, 2, closingIndex - 1)))))
\* /^:nth-of-type\((\d+)\)/ whose digits end before position end
BuildPseudo(remaining, predicates, end) ==
    IF end = 14 \/ CharAt(remaining, end) # ")" THEN NoPredicates
    ELSE BuildPredicates(
             SubSeq(remaining, end + 1, Len(remaining)),
             Append(predicates,
                    <<"p", "o", "s", "i", "t", "i", "o", "n", "(", ")", "=">> \o SubSeq(remaining, 14, end - 1)))

\* tag and predicates put together, null when the loop gave up
SimpleSelectorXPath(tag, built) ==
    IF ~built.ok THEN <<>>
    ELSE IF built.predicates = <<>> THEN tag
    ELSE tag \o <<"[">> \o Join(built.predicates, <<" ", "a", "n", "d", " ">>) \o <<"]">>

\* selector with the tag /^[a-zA-Z_][\w-]*/ ending before position end
SimpleSelectorTagged(selector, end) ==
    SimpleSelectorXPath(IF end = 1 THEN <<"*">> ELSE SubSeq(selector, 1, end - 1),
                        BuildPredicates(SubSeq(selector, end, Len(selector)), <<>>))

buildSimpleSelectorXPath(selector) ==
    SimpleSelectorTagged(
        selector,
        IF selector # <<>> /\ selector[1] \in LowerChars \cup UpperChars \cup {"_"}
        THEN RunEnd(selector, 2, NameChars) ELSE 1)

\* the for loop of convertSingleCssSelector from token i on
RECURSIVE ConvertTokens(_, _, _)
RECURSIVE ConvertToken(_, _, _, _)
ConvertTokens(tokens, i, xpathParts) ==
    IF i > Len(tokens) THEN xpathParts
    ELSE ConvertToken(tokens, i, xpathParts,
                      buildSimpleSelectorXPath(tokens[i].selector))
ConvertToken(tokens, i, xpathParts, simple) ==
    IF simple = <<>> THEN <<>>
    ELSE ConvertTokens(tokens, i + 1,
                       xpathParts
                           \o (IF i > 1 /\ tokens[i].combinator = "child"
                               THEN <<"/">> ELSE <<"/", "/">>)
                           \o simple)

convertSingleCssSelector(selector) ==
    ConvertTokens(tokenizeSelector(selector), 1, <<>>)

\* selectors.map(convertSingleCssSelector).filter(Boolean)
RECURSIVE MapConvert(_)
MapConvertKept(converted, rest) ==
    IF converted = <<>> THEN rest ELSE <<converted>> \o rest
MapConvert(selectors) ==
    IF selectors = <<>> THEN <<>>
    ELSE MapConvertKept(convertSingleCssSelector(Head(selectors)),
                        MapConvert(Tail(selectors)))

CssThrows == [throws |-> TRUE, xpath |-> <<>>]

CssJoined(xpathSegments) ==
    IF xpathSegments = <<>> THEN CssThrows
    ELSE [throws |-> FALSE, xpath |-> Join(xpathSegments, <<" ", "|", " ">>)]

cssToXPath(selector) ==
    IF Trim(selector) = <<>> THEN CssThrows
    ELSE CssJoined(MapConvert(splitSelectors(Trim(selector))))

(***************************************************************************)
(* utils/element-helpers.ts: xpathToCss.                                   *)
(***************************************************************************)
\* the first position at or after i that holds a character of Chars
FirstOf(s, i, Chars) ==
    IF \A k \in i..Len(s) : s[k] \notin Chars THEN Len(s) + 1
    ELSE CHOOSE k \in i..Len(s) :
             s[k] \in Chars /\ \A j \in i..(k - 1) : s[j] \notin Chars

\* the inner loop of parseXPathAxes: where the buffer started at i ends
\* (i is moved on to the next slash or bracket in one step)
RECURSIVE SegmentEnd(_, _, _)
SegmentEnd(xpath, i, depth) ==
    IF i > Len(xpath) \/ (xpath[i] = "/" /\ depth = 0) THEN i
    ELSE IF xpath[i] \notin {"/", "[", "]"}
    THEN SegmentEnd(xpath, FirstOf(xpath, i, {"/", "[", "]"}), depth)
    ELSE SegmentEnd(xpath, i + 1,
                    IF xpath[i] = "[" THEN depth + 1
                    ELSE IF xpath[i] = "]" /\ depth > 0 THEN depth - 1
                    ELSE depth)

\* the outer loop of parseXPathAxes from position i on
RECURSIVE AxesLoop(_, _, _, _)
RECURSIVE AxesSegment(_, _, _, _, _)
AxesLoop(xpath, i, combinator, segments) ==
    IF i > Len(xpath) THEN segments
    ELSE IF xpath[i] = "/" /\ CharAt(xpath, i + 1) = "/"
    THEN AxesSegment(xpath, i + 2, "descendant", segments,
                     SegmentEnd(xpath, i + 2, 0))
    ELSE IF xpath[i] = "/"
    THEN AxesSegment(xpath, i + 1, "child", segments, SegmentEnd(xpath, i + 1, 0))
    ELSE AxesSegment(xpath, i, combinator, segments, SegmentEnd(xpath, i, 0))
AxesSegment(xpath, i, combinator, segments, end) ==
    AxesLoop(xpath, end, combinator,
             IF end > i
             THEN Append(segments, [combinator |-> combinator,
                                    selector |-> SubSeq(xpath, i, end - 1)])
             ELSE segments)

parseXPathAxes(xpath) == AxesLoop(xpath, 1, "descendant", <<>>)

\* predicatePart.match(/\[[^\]]+\]/g) ?? [], from position i on
RECURSIVE PredicateMatches(_, _)
RECURSIVE PredicateMatched(_, _, _)
PredicateOpened(s, open) ==
    IF open = 0 THEN <<>> ELSE PredicateMatched(s, open, IndexOf(s, open + 1, "]"))
PredicateMatches(s, i) == PredicateOpened(s, IndexOf(s, i, "["))
PredicateMatched(s, open, close) ==
    IF close = 0 THEN <<>>
    ELSE IF close = open + 1 THEN PredicateMatches(s, open + 1)
    ELSE <<SubSeq(s, open, close)>> \o PredicateMatches(s, close + 1)

\* s.split('=')[k], undefined read as the empty string
SplitPiece(s, k) ==
    IF k > Len(Split(s, "=")) THEN <<>> ELSE Split(s, "=")[k]

\* inner.includes(text)
Includes(s, i, text) ==
    \E k \in i..(Len(s) - Len(text) + 1) : StartsWithAt(s, k, text)

\* inner.match(/' ([^']+) '/) from position i on: the group, or the empty
\* string when nothing matches
RECURSIVE ClassMatch(_, _)
ClassMatchAt(s, i, close) ==
    IF CharAt(s, i + 1) = " " /\ close >= i + 4 /\ s[close - 1] = " "
    THEN SubSeq(s, i + 2, close - 2)
    ELSE ClassMatch(s, i + 1)
ClassMatchFrom(s, i) ==
    IF i = 0 THEN <<>> ELSE ClassMatchAt(s, i, IndexOf(s, i + 2, "'"))
ClassMatch(s, i) == ClassMatchFrom(s, IndexOf(s, i, "'"))

\* /^position\(\)=\d+$/.test(inner)
IsPositionTest(inner) ==
    /\ StartsWith(inner, <<"p", "o", "s", "i", "t", "i", "o", "n", "(", ")", "=">>)
    /\ Len(inner) > 11
    /\ RunEnd(inner, 12, DigitChars) = Len(inner) + 1

UnsupportedPredicate == <<"unsupported">>

\* one pass of the for loop of convertXPathSegmentToCss: what is added to css
PredicateCss(inner) ==
    IF StartsWith(inner, <<"@", "i", "d", "=">>)
    THEN <<"#">> \o StripQuotes(SplitPiece(inner, 2), {"\""})
    ELSE IF StartsWith(inner, <<"@">>) /\ Contains(inner, "=")
    THEN <<"[">> \o Trim(Tail(SplitPiece(inner, 1))) \o <<"=", "\"">>
             \o StripQuotes(SplitPiece(inner, 2), {"\""}) \o <<"\"", "]">>
    ELSE IF StartsWith(inner, <<"c", "o", "n", "t", "a", "i", "n", "s">>) /\ Includes(inner, 1, <<"@", "c", "l", "a", "s", "s">>)
    THEN IF ClassMatch(inner, 1) # <<>> THEN <<".">> \o ClassMatch(inner, 1)
         ELSE <<>>
    ELSE IF IsPositionTest(inner)
    THEN <<":", "n", "t", "h", "-", "o", "f", "-", "t", "y", "p", "e", "(">> \o SplitPiece(inner, 2) \o <<")">>
    ELSE UnsupportedPredicate

\* the for loop of convertXPathSegmentToCss
RECURSIVE PredicatesCss(_, _)
PredicateAdded(css, added, rest) ==
    IF added = UnsupportedPredicate THEN <<>> ELSE PredicatesCss(css \o added, rest)
PredicatesCss(css, predicates) ==
    IF predicates = <<>> THEN css
    ELSE PredicateAdded(css,
                        PredicateCss(Trim(SubSeq(Head(predicates), 2,
                                                 Len(Head(predicates)) - 1))),
                        Tail(predicates))

\* segment with the tag /^([a-zA-Z_][\w-]*|\*)/ ending before position end
SegmentTagged(segment, end) ==
    IF end = 1 THEN <<>>
    ELSE PredicatesCss(SubSeq(segment, 1, end - 1), PredicateMatches(segment, end))

convertXPathSegmentToCss(segment) ==
    SegmentTagged(
        segment,
        IF segment # <<>> /\ segment[1] \in LowerChars \cup UpperChars \cup {"_"}
        THEN RunEnd(segment, 2, NameChars)
        ELSE IF segment # <<>> /\ segment[1] = "*" THEN 2 ELSE 1)

CssNull == [isNull |-> TRUE, css |-> <<>>]

\* the for loop of xpathToCss
RECURSIVE CssParts(_, _)
CssPart(segments, cssParts, cssSegment) ==
    IF cssSegment = <<>> THEN CssNull
    ELSE CssParts(Tail(segments),
                  IF cssParts = <<>> THEN cssSegment
                  ELSE cssParts
                           \o (IF Head(segments).combinator = "child"
                               THEN <<" ", ">", " ">> ELSE <<" ">>)
                           \o cssSegment)
CssParts(segments, cssParts) ==
    IF segments = <<>> THEN [isNull |-> FALSE, css |-> cssParts]
    ELSE CssPart(segments, cssParts,
                 convertXPathSegmentToCss(Head(segments).selector))

CssOfSegments(segments) ==
    IF segments = <<>> THEN CssNull ELSE CssParts(segments, <<>>)

xpathToCss(xpath) ==
    IF normalizeXPath(xpath) = <<>> THEN CssNull
    ELSE CssOfSegments(parseXPathAxes(normalizeXPath(xpath)))

(***************************************************************************)
(* The converters on their own.  A selector is put together from its       *)
(* structure: groups of compounds, a compound being a tag and its parts.   *)
(***************************************************************************)
MaxParts == 2

PART_id == <<"#", "a">>
PART_classB == <<".", "b">>
PART_classC == <<".", "c">>
PART_attribute == <<"[", "n", "=", "\"", "v", "\"", "]">>
PART_nth == <<":", "n", "t", "h", "-", "o", "f", "-", "t", "y", "p", "e", "(", "2", ")">>
PART_hover == <<":", "h", "o", "v", "e", "r">>

\* an attribute test whose value holds a comma
PART_comma == <<"[", "n", "=", "\"", "v", ",", "w", "\"", "]">>

SupportedParts == {PART_id, PART_classB, PART_classC, PART_attribute, PART_nth}

\* the sequences of at most n different members of S
DistinctSeqs(S, n) ==
    {s \in UNION {[1..k -> S] : k \in 0..n} :
        \A i \in DOMAIN s, j \in DOMAIN s : s[i] = s[j] => i = j}

RECURSIVE Flatten(_)
Flatten(parts) ==
    IF parts = <<>> THEN <<>> ELSE Head(parts) \o Flatten(Tail(parts))

\* compounds with at most n parts, led by the given combinator
Compounds(n, combinators) ==
    {c \in [combinator : combinators, tag : {<<>>, <<"p">>},
            parts : DistinctSeqs(SupportedParts \cup {PART_hover}, n)] :
        c.tag # <<>> \/ c.parts # <<>>}

RECURSIVE RenderSelector(_)
RenderSelector(compounds) ==
    IF compounds = <<>> THEN <<>>
    ELSE (IF Head(compounds).combinator = "child" THEN <<" ", ">", " ">>
          ELSE IF Head(compounds).combinator = "descendant" THEN <<" ">>
          ELSE <<>>)
             \o Head(compounds).tag \o Flatten(Head(compounds).parts)
             \o RenderSelector(Tail(compounds))

RECURSIVE RenderGroups(_)
RenderGroups(groups) ==
    IF groups = <<>> THEN <<>>
    ELSE IF Len(groups) = 1 THEN RenderSelector(groups[1])
    ELSE RenderSelector(groups[1]) \o <<",", " ">> \o RenderGroups(Tail(groups))

\* groups where an attribute value holds a comma, alone and beside another
\* group
CommaGroups ==
    LET c == [combinator |-> "first", tag |-> <<>>, parts |-> <<PART_comma>>]
    IN  {<<<<c>>>>}
            \cup {<<<<c>>, <<d>>>> : d \in Compounds(MaxParts - 1, {"first"})}
            \cup {<<<<d>>, <<c>>>> : d \in Compounds(MaxParts - 1, {"first"})}

\* one compound; two compounds under a combinator; two groups
GroupInputs ==
    CommaGroups \cup
    {<<<<c>>>> : c \in Compounds(MaxParts, {"first"})}
        \cup {<<<<c, d>>>> : c \in Compounds(MaxParts - 1, {"first"}),
                             d \in Compounds(MaxParts - 1, {"child", "descendant"})}
        \cup {<<<<c>>, <<d>>>> : c \in Compounds(MaxParts - 1, {"first"}),
                                 d \in Compounds(MaxParts - 1, {"first"})}

CssInputs ==
    {[groups |-> g, selector |-> RenderGroups(g)] : g \in GroupInputs}
        \cup {[groups |-> <<>>, selector |-> s] : s \in {<<>>, <<" ">>, <<",">>}}

\* the predicates xpathToCss knows, and some it does not
PRED_id == <<"@", "i", "d", "=", "\"", "a", "\"">>
PRED_class == <<"c", "o", "n", "t", "a", "i", "n", "s", "(", "c", "o", "n", "c", "a", "t", "(", "'", " ", "'", ",", " ", "n", "o", "r", "m", "a", "l", "i", "z", "e", "-", "s", "p", "a", "c", "e", "(", "@", "c", "l", "a", "s", "s", ")", ",", " ", "'", " ", "'", ")", ",", " ", "'", " ", "b", " ", "'", ")">>
PRED_attribute == <<"@", "n", "=", "\"", "v", "\"">>
PRED_position == <<"p", "o", "s", "i", "t", "i", "o", "n", "(", ")", "=", "2">>
PRED_and == <<"@", "i", "d", "=", "\"", "a", "\"", " ", "a", "n", "d", " ", "@", "n", "=", "\"", "v", "\"">>
PRED_attributeAnd == <<"@", "n", "=", "\"", "v", "\"", " ", "a", "n", "d", " ", "p", "o", "s", "i", "t", "i", "o", "n", "(", ")", "=", "2">>
PRED_classContains == <<"c", "o", "n", "t", "a", "i", "n", "s", "(", "@", "c", "l", "a", "s", "s", ",", " ", "\"", "x", "\"", ")">>
PRED_has == <<"@", "n">>
PRED_number == <<"2">>
PRED_startsWith == <<"s", "t", "a", "r", "t", "s", "-", "w", "i", "t", "h", "(", "@", "n", ",", " ", "\"", "v", "\"", ")">>

SupportedPredicates == {PRED_id, PRED_class, PRED_attribute, PRED_position}

UnsupportedPredicates ==
    {PRED_and, PRED_attributeAnd, PRED_classContains, PRED_has, PRED_number,
     PRED_startsWith}

\* steps with at most n predicates
Steps(n) ==
    [combinator : {"child", "descendant"}, tag : {<<"p">>, <<"*">>},
     predicates : DistinctSeqs(SupportedPredicates \cup UnsupportedPredicates, n)]

RECURSIVE Bracketed(_)
Bracketed(predicates) ==
    IF predicates = <<>> THEN <<>>
    ELSE <<"[">> \o Head(predicates) \o <<"]">> \o Bracketed(Tail(predicates))

RECURSIVE RenderPath(_)
RenderPath(steps) ==
    IF steps = <<>> THEN <<>>
    ELSE (IF Head(steps).combinator = "child" THEN <<"/">> ELSE <<"/", "/">>)
             \o Head(steps).tag \o Bracketed(Head(steps).predicates)
             \o RenderPath(Tail(steps))

PathInputs ==
    {<<s>> : s \in Steps(MaxParts)}
        \cup {<<s, t>> : s \in Steps(MaxParts - 1), t \in Steps(MaxParts - 1)}

XPathInputs == {[steps |-> p, xpath |-> RenderPath(p)] : p \in PathInputs}

InitCss ==
    /\ doc = NoDoc
    /\ gens = <<>>
    /\ last = NoCall
    /\ heap = <<>>
    /\ regs = <<>>

CssToXPath ==
    /\ last = NoCall
    /\ \E input \in CssInputs :
          last' = [op |-> "cssToXPath", selector |-> input.selector,
                   groups |-> input.groups,
                   throws |-> cssToXPath(input.selector).throws,
                   xpath |-> cssToXPath(input.selector).xpath]
    /\ UNCHANGED <<doc, gens, heap, regs>>

XPathToCss ==
    /\ last = NoCall
    /\ \E input \in XPathInputs :
          last' = [op |-> "xpathToCss", from |-> "input", xpath |-> input.xpath,
                   steps |-> input.steps, groups |-> <<>>,
                   result |-> xpathToCss(input.xpath)]
    /\ UNCHANGED <<doc, gens, heap, regs>>

\* xpathToCss(cssToXPath(selector))
RoundTrip ==
    /\ last.op = "cssToXPath"
    /\ ~last.throws
    /\ last' = [op |-> "xpathToCss", from |-> "cssToXPath", xpath |-> last.xpath,
                steps |-> <<>>, groups |-> last.groups,
                result |-> xpathToCss(last.xpath)]
    /\ UNCHANGED <<doc, gens, heap, regs>>

NextCss == CssToXPath \/ XPathToCss \/ RoundTrip

SpecCss == InitCss /\ [][NextCss]_vars

\* the selectors within the supported subset: one group, no other pseudo-class
SupportedSelector(groups) ==
    /\ Len(groups) = 1
    /\ \A i \in DOMAIN groups[1] :
          \A k \in DOMAIN groups[1][i].parts : groups[1][i].parts[k] # PART_hover

HasUnsupportedPseudo(groups) ==
    \E g \in DOMAIN groups : \E i \in DOMAIN groups[g] :
        \E k \in DOMAIN groups[g][i].parts : groups[g][i].parts[k] = PART_hover

\* the ways of writing a compound: its parts in any order, the universal
\* selector written or left out
CompoundRenderings(c) ==
    {t \o Flatten([k \in DOMAIN c.parts |-> c.parts[order[k]]]) :
        t \in (IF c.tag = <<>> THEN {<<>>, <<"*">>} ELSE {c.tag}),
        order \in {f \in [DOMAIN c.parts -> DOMAIN c.parts] :
                      \A i \in DOMAIN c.parts, j \in DOMAIN c.parts :
                          f[i] = f[j] => i = j}}

RECURSIVE SelectorRenderings(_)
SelectorRenderings(compounds) ==
    IF Len(compounds) = 1 THEN CompoundRenderings(compounds[1])
    ELSE {a \o (IF compounds[Len(compounds)].combinator = "child"
                THEN <<" ", ">", " ">> ELSE <<" ">>) \o b :
             a \in SelectorRenderings(SubSeq(compounds, 1, Len(compounds) - 1)),
             b \in CompoundRenderings(compounds[Len(compounds)])}

(***************************************************************************)
(* C14: for every selector of the supported subset (tag, #id, .class,      *)
(* [attr="value"], :nth-of-type(n), compounds of these, child and          *)
(* descendant combinators) cssToXPath gives an expression, xpathToCss of   *)
(* it is not null and is the same selector up to the order of the parts    *)
(* and a written universal selector: every id, class, attribute, position  *)
(* and combinator is kept.                                                 *)
(***************************************************************************)
C14_CssRoundTrip ==
    /\ (last.op = "cssToXPath" /\ SupportedSelector(last.groups)) => ~last.throws
    /\ (last.op = "xpathToCss" /\ last.from = "cssToXPath"
            /\ SupportedSelector(last.groups))
           => /\ ~last.result.isNull
              /\ last.result.css \in SelectorRenderings(last.groups[1])

\* p#a.b comes back as one id that swallowed the class test
C14_Witness ==
    /\ last.op = "xpathToCss"
    /\ last.from = "cssToXPath"
    /\ last.groups = <<<<[combinator |-> "first", tag |-> <<"p">>,
                         parts |-> <<PART_id, PART_classB>>]>>>>
    /\ ~last.result.isNull
    /\ last.result.css \notin SelectorRenderings(last.groups[1])

(***************************************************************************)
(* C15: cssToXPath throws for every selector that is empty or that has an  *)
(* unsupported pseudo-class in any of its comma-separated groups.          *)
(***************************************************************************)
C15_CssRejects ==
    (last.op = "cssToXPath"
         /\ (last.groups = <<>> \/ HasUnsupportedPseudo(last.groups)))
        => last.throws

\* a group with :hover is left out and the other group is converted
C15_Witness ==
    /\ last.op = "cssToXPath"
    /\ Len(last.groups) = 2
    /\ HasUnsupportedPseudo(last.groups)
    /\ ~last.throws
    /\ last.xpath = <<"/", "/", "p">>

(***************************************************************************)
(* C16: xpathToCss returns null whenever a bracketed predicate of a        *)
(* segment is not one of the four supported shapes (@id="v", the class     *)
(* containment test, @attr="v", position()=n).                             *)
(***************************************************************************)
C16_XPathRejects ==
    (last.op = "xpathToCss" /\ last.from = "input"
         /\ \E i \in DOMAIN last.steps : \E k \in DOMAIN last.steps[i].predicates :
                last.steps[i].predicates[k] \in UnsupportedPredicates)
        => last.result.isNull

\* contains(@class, "x") is dropped: //p[contains(@class, "x")] becomes p
C16_Witness ==
    /\ last.op = "xpathToCss"
    /\ last.from = "input"
    /\ last.steps = <<[combinator |-> "descendant", tag |-> <<"p">>,
                      predicates |-> <<PRED_classContains>>]>>
    /\ ~last.result.isNull
    /\ last.result.css = <<"p">>

\* the first node of a node list, Null for an empty one
FirstNode(nodes) == IF nodes = <<>> THEN Null ELSE nodes[1]

\* options.root when given, else the context argument, else the document
PrecedenceContext(root, context) ==
    IF root # Null THEN root ELSE IF context # Null THEN context ELSE DocumentNode

(***************************************************************************)
(* C17: resolveXPath evaluates the expression against options.root when    *)
(* that is given, else against the context argument, else against the      *)
(* ambient document: what it returns is the first node the expression      *)
(* selects from that node.                                                 *)
(***************************************************************************)
C17_ContextPrecedence ==
    last.op = "resolveXPath"
        => last.node =
               FirstNode(NodesInScope(normalizeXPath(last.xpath),
                                      PrecedenceContext(last.options.root,
                                                        last.context)))

\* a root and a different context are both given, and the element found
\* from the root is not what the context alone would give
C17_Witness ==
    /\ last.op = "resolveXPath"
    /\ last.options.root # Null
    /\ last.context # Null
    /\ last.context # last.options.root
    /\ last.node # Null
    /\ last.node # FirstNode(NodesInScope(normalizeXPath(last.xpath), last.context))

\* no root: the context argument is used, and without one the document
C17_WitnessContext ==
    /\ last.op = "resolveXPath"
    /\ last.options.root = Null
    /\ last.context \in Elements
    /\ last.node # Null

(***************************************************************************)
(* Expressions of the caller's own: empty ones, malformed ones, ones that  *)
(* select only nodes that are not elements, and ones that select elements. *)
(***************************************************************************)
EmptyInputs == {<<>>, <<" ">>}

MalformedInputs == {<<"!", "!", "!">>, <<"/", "/", "p", "[">>, <<"1">>, <<"/", "/", "p", "[", "@", "i", "d", "=">>}

NonElementInputs == {<<"/">>, <<"/", "/", "@", "i", "d">>, <<"/", "/", "p", "/", "@", "n", "a", "m", "e">>, <<"/", "h", "t", "m", "l", "/", "@", "c", "l", "a", "s", "s">>}

ElementInputs == {<<"/", "/", "p">>, <<"/", "/", "*">>, <<"/", "h", "t", "m", "l">>, <<"/", "h", "t", "m", "l", "/", "d", "i", "v">>, <<"/", "/", "*", "[", "@", "i", "d", "=", "\"", "x", "\"", "]">>}

ExpressionInputs ==
    EmptyInputs \cup MalformedInputs \cup NonElementInputs \cup ElementInputs

\* the elements that carry attributes in the documents of these calls
MaxAttributed == 1

InitResolve == InitDocs(Documents(MaxAttributed))

ResolveExpression(Inputs) ==
    /\ last = NoCall
    /\ \E xpath \in Inputs, context \in {Null, DocumentNode} \cup Elements :
          last' = [op |-> "resolveXPath", gen |-> 1, xpath |-> xpath,
                   context |-> context, options |-> NoOptions,
                   node |-> resolveXPath(gens[1], xpath, context, NoOptions),
                   evaluated |-> resolveXPathEvaluations(gens[1], xpath, context,
                                                         NoOptions),
                   from |-> NoCall]
    /\ UNCHANGED <<doc, gens, heap, regs>>

IsXPathMatch ==
    /\ last = NoCall
    /\ \E xpath \in ExpressionInputs,
          node \in {DocumentNode, AttributeNode(1)} \cup Elements :
          last' = [op |-> "isXPathMatch", gen |-> 1, node |-> node,
                   xpath |-> xpath, context |-> Null, options |-> NoOptions,
                   result |-> isXPathMatch(gens[1], node, xpath, Null, NoOptions)]
    /\ UNCHANGED <<doc, gens, heap, regs>>

NextResolve == ResolveExpression(ExpressionInputs) \/ IsXPathMatch

SpecResolve == InitResolve /\ [][NextResolve]_vars

(***************************************************************************)
(* C18: resolveXPath returns null for an expression that is empty, that is *)
(* malformed or that selects only nodes other than elements, and whatever  *)
(* it returns that is not null is an element; isXPathMatch is false for a  *)
(* node that is not an element and for such an expression.                 *)
(***************************************************************************)
C18_FailuresGiveNull ==
    /\ last.op = "resolveXPath"
           => /\ last.node = Null \/ last.node \in Elements
              /\ last.xpath \in EmptyInputs \cup MalformedInputs \cup NonElementInputs
                     => last.node = Null
    /\ (last.op = "isXPathMatch"
            /\ (last.node \notin Elements
                    \/ last.xpath \in EmptyInputs \cup MalformedInputs
                                          \cup NonElementInputs))
           => ~last.result

\* //@id selects the id attribute of an element of the document, and the
\* answer is null
C18_Witness ==
    /\ last.op = "resolveXPath"
    /\ last.xpath = <<"/", "/", "@", "i", "d">>
    /\ \E e \in Elements : hasAttribute(e, ATTR_id)
    /\ evaluate(last.xpath, DocumentNode).nodes # <<>>
    /\ last.node = Null

\* a match is reported for an element the expression selects first
C18_WitnessMatch ==
    /\ last.op = "isXPathMatch"
    /\ last.node \in Elements
    /\ last.result

(***************************************************************************)
(* findCommonAncestorXPath on its own.  The documents may hold one subtree *)
(* that is not connected to the document (its top has no parent).          *)
(***************************************************************************)
MaxNodes == 2

\* the documents of Documents(0) with one element other than the document
\* element taken out of the tree, its subtree with it
DetachedDocuments ==
    UNION {{[d EXCEPT !.parent[i] = Null] : i \in 2..d.n} : d \in Documents(0)}

\* the arrays a caller passes: elements, and nodes that are not elements
NodeLists(n) ==
    UNION {[1..k -> {DocumentNode} \cup 1..n] : k \in 0..MaxNodes}

InitAncestor == InitDocs(Documents(0) \cup DetachedDocuments)

FindCommonAncestorXPath ==
    /\ last = NoCall
    /\ \E nodes \in NodeLists(doc.n), options \in StructOptions :
          last' = [op |-> "findCommonAncestorXPath", gen |-> 1, nodes |-> nodes,
                   options |-> options,
                   outcome |-> findCommonAncestorXPath(gens[1], nodes, options).outcome,
                   xpath |-> findCommonAncestorXPath(gens[1], nodes, options).xpath]
    /\ UNCHANGED <<doc, gens, heap, regs>>

NextAncestor == FindCommonAncestorXPath

SpecAncestor == InitAncestor /\ [][NextAncestor]_vars

\* the elements of an array of nodes
ElementsOf(nodes) == {nodes[i] : i \in DOMAIN nodes} \cap Elements

\* the elements that equal or contain every element of S
SharedAncestors(S) == {c \in Elements : \A e \in S : contains(c, e)}

\* the lowest of them: every other one contains it (Null when there is none)
NearestShared(S) ==
    IF SharedAncestors(S) = {} THEN Null
    ELSE CHOOSE c \in SharedAncestors(S) : \A d \in SharedAncestors(S) : contains(d, c)

(***************************************************************************)
(* C19: findCommonAncestorXPath gives null for an array that is empty or   *)
(* holds no element and when no element equals or contains every element   *)
(* of the array; otherwise it gives what getXPathForNode gives for the     *)
(* lowest element that equals or contains every element of the array.      *)
(***************************************************************************)
C19_CommonAncestor ==
    last.op = "findCommonAncestorXPath"
        => IF ElementsOf(last.nodes) = {}
                  \/ NearestShared(ElementsOf(last.nodes)) = Null
           THEN last.outcome = "null"
           ELSE /\ last.outcome =
                       getXPathForNode(gens[1], NearestShared(ElementsOf(last.nodes)),
                                       last.options).outcome
                /\ last.xpath =
                       getXPathForNode(gens[1], NearestShared(ElementsOf(last.nodes)),
                                       last.options).xpath

\* two elements, neither containing the other: the expression is that of
\* their lowest shared ancestor, which is not the document element
C19_Witness ==
    /\ last.op = "findCommonAncestorXPath"
    /\ Len(last.nodes) = 2
    /\ ElementsOf(last.nodes) = {last.nodes[1], last.nodes[2]}
    /\ ~contains(last.nodes[1], last.nodes[2])
    /\ ~contains(last.nodes[2], last.nodes[1])
    /\ last.outcome = "ok"
    /\ last.xpath # <<>>

\* two elements of different trees: null
C19_WitnessDisconnected ==
    /\ last.op = "findCommonAncestorXPath"
    /\ Cardinality(ElementsOf(last.nodes)) = 2
    /\ SharedAncestors(ElementsOf(last.nodes)) = {}
    /\ last.outcome = "null"

\* the walk up from the first element stops below the document element
C19_WitnessBelowRoot ==
    /\ last.op = "findCommonAncestorXPath"
    /\ Cardinality(ElementsOf(last.nodes)) = 2
    /\ NearestShared(ElementsOf(last.nodes)) \notin {Null, 1, last.nodes[1]}
    /\ last.outcome = "ok"

(***************************************************************************)
(* isAttributeUnique on its own.  xml:lang is an attribute whose name is   *)
(* no CSS identifier: querySelectorAll refuses the selector made of it.    *)
(***************************************************************************)
ATTR_xmlLang == <<"x", "m", "l", ":", "l", "a", "n", "g">>

VALUE_upperX == <<"X">>

OracleProfiles ==
    {NoAttributes,
     ATTR_name :> VALUE_x,
     ATTR_name :> VALUE_upperX,
     ATTR_xmlLang :> VALUE_x}

OracleDocuments ==
    UNION {{[n |-> n, parent |-> p, tagName |-> t, attrs |-> a] :
                p \in Shapes(n), t \in TagChoices(n), a \in [1..n -> OracleProfiles]} :
           n \in 1..MaxElems}

InitOracle == InitDocs(OracleDocuments)

IsAttributeUnique ==
    /\ last = NoCall
    /\ \E node \in Elements, attribute \in {ATTR_name, ATTR_xmlLang},
          scope \in {Null, DocumentNode} \cup Elements :
          last' = [op |-> "isAttributeUnique", node |-> node,
                   attribute |-> attribute, scope |-> scope,
                   result |-> isAttributeUnique(node, attribute, scope)]
    /\ UNCHANGED <<doc, gens, heap, regs>>

NextOracle == IsAttributeUnique

SpecOracle == InitOracle /\ [][NextOracle]_vars

\* the elements under a scope that carry the attribute with exactly the
\* value
SameValueUnder(scope, attribute, value) ==
    {e \in Elements :
        /\ scope = DocumentNode \/ (e # scope /\ contains(scope, e))
        /\ hasAttribute(e, attribute)
        /\ getAttribute(e, attribute) = value}

(***************************************************************************)
(* C20: isAttributeUnique(node, attribute, scope) is true exactly when     *)
(* there is a scope, node carries the attribute, and exactly one element   *)
(* under the scope carries the attribute with exactly node's value.        *)
(***************************************************************************)
C20_UniquenessOracle ==
    last.op = "isAttributeUnique"
        => (last.result <=>
                /\ last.scope # Null
                /\ hasAttribute(last.node, last.attribute)
                /\ Cardinality(SameValueUnder(last.scope, last.attribute,
                                              getAttribute(last.node,
                                                           last.attribute))) = 1)

\* the scope is an element that carries xml:lang="x" itself and holds one
\* more element with it: one element under the scope, but the answer is no
C20_Witness ==
    /\ last.op = "isAttributeUnique"
    /\ last.attribute = ATTR_xmlLang
    /\ last.scope \in Elements
    /\ hasAttribute(last.scope, ATTR_xmlLang)
    /\ hasAttribute(last.node, ATTR_xmlLang)
    /\ Cardinality(SameValueUnder(last.scope, ATTR_xmlLang,
                                  getAttribute(last.node, ATTR_xmlLang))) = 1
    /\ ~last.result

\* a segment without its index predicate
BareSegment(segment) ==
    IF Contains(segment, "[") THEN SubSeq(segment, 1, IndexOf(segment, 1, "[") - 1)
    ELSE segment

BareSegments(segments) == [i \in DOMAIN segments |-> BareSegment(segments[i])]

\* the candidate forms of a path in construction order: the full path and
\* the full path without indexes, then for every suffix, longest first, the
\* suffix after // and the same without indexes
RECURSIVE SuffixForms(_, _)
SuffixForms(segments, from) ==
    IF from > Len(segments) THEN <<>>
    ELSE <<<<"/", "/">> \o Join(SubSeq(segments, from, Len(segments)), <<"/">>),
           <<"/", "/">> \o Join(BareSegments(SubSeq(segments, from, Len(segments))),
                                <<"/">>)>>
             \o SuffixForms(segments, from + 1)

CandidateForms(segments) ==
    <<<<"/">> \o Join(segments, <<"/">>),
      <<"/">> \o Join(BareSegments(segments), <<"/">>)>>
        \o SuffixForms(segments, 1)

\* the positions of the forms that select exactly e in the scope
PassingForms(forms, scope, e) ==
    {i \in DOMAIN forms : NodesInScope(forms[i], scope) = <<e>>}

\* the passing form that is shortest, the earliest among equally long ones
BestForm(forms, passing) ==
    forms[CHOOSE i \in passing :
              \A j \in passing :
                  Len(forms[i]) < Len(forms[j])
                      \/ (Len(forms[i]) = Len(forms[j]) /\ i <= j)]

C21_WitnessFallback ==
    /\ Got("getShortestUniqueXPath")
    /\ last.node # RootOf(last.options)
    /\ PassingForms(CandidateForms(SegmentsFrom(RootOf(last.options), last.node,
                                                StrategyOf(last.options))),
                    RootOf(last.options), last.node) = {}
    /\ last.xpath = StructuralPath(RootOf(last.options), last.node,
                                   StrategyOf(last.options))

(***************************************************************************)
(* The hooks of the heuristics: generators made with caller plugins that   *)
(* define beforeSegment, decorateSegment and afterGenerate, on documents   *)
(* where one element may carry attributes; every call records the hooks    *)
(* it invoked and the context each was handed.                             *)
(***************************************************************************)
HookConfigs ==
    {[defaultOptions |-> NoOptions, plugins |-> plugins] :
        plugins \in {<<PluginProbe>>, <<PluginProbe, PluginA1>>,
                     <<PluginStar, PluginMark>>, <<PluginMark, PluginStar>>,
                     <<PluginQuiet, PluginStar>>, <<PluginStar, PluginProbe>>}}

HookOptions ==
    {NoOptions} \cup
    {GivenOptions("undefined", <<>>, minIndex, root) :
        minIndex \in {"undefined", "always"}, root \in {Null} \cup Elements}

InitHooks ==
    /\ doc \in Documents(MaxAttributed)
    /\ gens \in {<<createXPathGenerator(config)>> : config \in HookConfigs \cup {NoConfig}}
    /\ last = NoCall
    /\ heap = <<>>
    /\ regs = <<>>

NextHooks == GetXPathForNode(HookOptions)

SpecHooks == InitHooks /\ [][NextHooks]_vars

\* the heuristic of a generator by its name
HeuristicNamed(generator, name) ==
    generator.heuristics[CHOOSE i \in DOMAIN generator.heuristics :
                             generator.heuristics[i].name = name]

\* the names, in list order, of the heuristics that define a hook
RECURSIVE NamesDefining(_, _)
NamesDefining(heuristics, hook) ==
    IF heuristics = <<>> THEN <<>>
    ELSE (IF Defines(Head(heuristics), hook) THEN <<Head(heuristics).name>>
          ELSE <<>>)
             \o NamesDefining(Tail(heuristics), hook)

\* the positions of a trace where a hook is called
CallsOf(hooks, hook) == {i \in DOMAIN hooks : hooks[i].hook = hook}

\* what the provideSelector call at position i of a trace returned
ProvidedAt(generator, hooks, i) ==
    provideSelector(HeuristicNamed(generator, hooks[i].name), hooks[i].context)

(***************************************************************************)
(* C22: within one getXPathForNode call the heuristics are asked for a     *)
(* selector in list order; once one returns a non-empty selector, no hook  *)
(* of any heuristic is invoked after it in that call, and the call returns *)
(* that selector normalized.                                               *)
(***************************************************************************)
C22_ShortCircuit ==
    (Got("getXPathForNode") /\ last.outcome = "ok")
        => LET hooks == last.hooks
               asked == CallsOf(hooks, "provideSelector")
               providers == NamesDefining(gens[last.gen].heuristics, "provideSelector")
           IN  /\ asked = 1..Cardinality(asked)
               /\ Cardinality(asked) <= Len(providers)
               /\ \A i \in asked : hooks[i].name = providers[i]
               /\ \A i \in asked :
                     ProvidedAt(gens[last.gen], hooks, i) # <<>>
                         => /\ i = Len(hooks)
                            /\ last.xpath =
                                   normalizeXPath(ProvidedAt(gens[last.gen], hooks, i))

\* a plugin's selector ends the call before a later heuristic that would
\* have supplied one too, and before the observing plugin's hooks
C22_Witness ==
    /\ Got("getXPathForNode")
    /\ last.outcome = "ok"
    /\ HasName(gens[last.gen].heuristics, PluginProbe.name)
    /\ last.hooks # <<>>
    /\ last.hooks[Len(last.hooks)].hook = "provideSelector"
    /\ last.hooks[Len(last.hooks)].name = PluginA1.name
    /\ idProvideSelector(last.hooks[Len(last.hooks)].context) # <<>>

\* no heuristic supplies a selector: the other hooks are invoked
C22_WitnessWalk ==
    /\ Got("getXPathForNode")
    /\ last.outcome = "ok"
    /\ CallsOf(last.hooks, "beforeSegment") # {}
    /\ CallsOf(last.hooks, "afterGenerate") # {}
    /\ CallsOf(last.hooks, "decorateSegment") # {}

\* the first non-empty rewrite of a segment in list order, or the segment
RECURSIVE FirstRewrite(_, _)
FirstRewrite(heuristics, segment) ==
    IF heuristics = <<>> THEN segment
    ELSE IF decorateSegment(Head(heuristics), segment) # <<>>
    THEN decorateSegment(Head(heuristics), segment)
    ELSE FirstRewrite(Tail(heuristics), segment)

\* the path from root down to e with the first rewrite of every segment
RECURSIVE FirstRewrites(_, _, _, _)
FirstRewrites(heuristics, root, e, strategy) ==
    IF e = root THEN <<FirstRewrite(heuristics, IndexedSegment(e, strategy))>>
    ELSE Append(FirstRewrites(heuristics, root, doc.parent[e], strategy),
                FirstRewrite(heuristics, IndexedSegment(e, strategy)))

(***************************************************************************)
(* C23: when the path of a node is built from segments, every segment      *)
(* placed is the rewrite of the first heuristic in the list whose          *)
(* decorateSegment returns a non-empty string for it; results that are     *)
(* empty or null leave the segment as it was.                              *)
(***************************************************************************)
C23_FirstRewrite ==
    (Got("getXPathForNode") /\ CallsOf(last.hooks, "decorateSegment") # {})
        => last.xpath =
               <<"/">> \o Join(FirstRewrites(gens[last.gen].heuristics,
                                             RootOf(last.options), last.node,
                                             StrategyOf(last.options)),
                               <<"/">>)

\* two plugins rewrite the same segment and the call places the rewrite of
\* the one that is later in the list
C23_Witness ==
    /\ Got("getXPathForNode")
    /\ CallsOf(last.hooks, "decorateSegment") # {}
    /\ gens[last.gen].heuristics[1] = PluginStar
    /\ gens[last.gen].heuristics[2] = PluginMark
    /\ last.xpath = <<"/">> \o Join([i \in 1..Len(SegmentsFrom(RootOf(last.options),
                                                               last.node, "never"))
                                        |-> decorateSegment(PluginMark, <<>>)],
                                    <<"/">>)

\* the elements strictly above e up to root, the nearest first; e is root
\* or inside it
RECURSIVE AncestorsWithin(_, _)
AncestorsWithin(root, e) ==
    IF e = root THEN <<>>
    ELSE <<doc.parent[e]>> \o AncestorsWithin(root, doc.parent[e])

\* the contexts with an ancestors list that a call handed to its hooks
ContextsHanded(hooks) ==
    {hooks[i].context : i \in {j \in DOMAIN hooks : hooks[j].hook # "decorateSegment"}}

(***************************************************************************)
(* C24: in every context handed to a heuristic, ancestors is the chain of  *)
(* elements from the target node up to and including the resolved root,    *)
(* the nearest first, and holds no element outside the root's subtree,     *)
(* also when the target is a custom root with ancestors in the document.   *)
(***************************************************************************)
C24_AncestorsWithinRoot ==
    Got("getXPathForNode")
        => \A context \in ContextsHanded(last.hooks) :
              /\ context.ancestors = AncestorsWithin(RootOf(last.options), last.node)
              /\ \A i \in DOMAIN context.ancestors :
                    contains(RootOf(last.options), context.ancestors[i])

\* the target is a custom root below the document element and a heuristic
\* is handed an ancestors list with an element above it
C24_Witness ==
    /\ Got("getXPathForNode")
    /\ last.node = RootOf(last.options)
    /\ last.node # 1
    /\ \E context \in ContextsHanded(last.hooks) :
          \E i \in DOMAIN context.ancestors :
             ~contains(last.node, context.ancestors[i])

\* the target is inside the root: the chain ends with the root
C24_WitnessInside ==
    /\ Got("getXPathForNode")
    /\ last.node # RootOf(last.options)
    /\ RootOf(last.options) # 1
    /\ \E context \in ContextsHanded(last.hooks) :
          /\ context.ancestors # <<>>
          /\ context.ancestors[Len(context.ancestors)] = RootOf(last.options)

\* the conversions of the groups taken one at a time, the failed ones left
\* out
RECURSIVE GroupConversions(_)
GroupConversions(groups) ==
    IF groups = <<>> THEN <<>>
    ELSE (IF convertSingleCssSelector(RenderSelector(Head(groups))) = <<>> THEN <<>>
          ELSE <<convertSingleCssSelector(RenderSelector(Head(groups)))>>)
             \o GroupConversions(Tail(groups))

\* the union operators of an expression: the bars outside string literals
UnionOperators(xpath) ==
    {i \in DOMAIN xpath :
        /\ xpath[i] = "|"
        /\ Cardinality({j \in 1..i : xpath[j] = "\""}) % 2 = 0}

C25_WitnessPartial ==
    /\ last.op = "cssToXPath"
    /\ ~last.throws
    /\ Len(last.groups) = 2
    /\ Len(GroupConversions(last.groups)) = 1
    /\ UnionOperators(last.xpath) = {}

\* every group fails
C25_WitnessAllFail ==
    /\ last.op = "cssToXPath"
    /\ last.throws
    /\ Len(last.groups) = 2

\* a generator whose heuristics are the built-in ones, possibly with a
\* plugin that only observes
BuiltInOnly(generator) ==
    \A i \in DOMAIN generator.heuristics :
        generator.heuristics[i].impl
            \in {"id", "unique-attribute", "root-element", "segment-normalization",
                 "probe"}

\* an absolute path whose first segment names the tag, with or without an
\* index
LedByTag(xpath, tag) ==
    /\ StartsWith(xpath, <<"/">> \o tag)
    /\ \/ Len(xpath) = Len(tag) + 1
       \/ xpath[Len(tag) + 2] \in {"/", "["}

(***************************************************************************)
(* C26: when options.root is an element other than the document element,   *)
(* the built-in id and unique-attribute heuristics supply no selector: the *)
(* call never returns a selector that starts with //, and returns an       *)
(* absolute path led by the root's tag, also for a node whose id is unique *)
(* in the document.                                                        *)
(***************************************************************************)
C26_CustomRootGuard ==
    (/\ Got("getXPathForNode")
     /\ BuiltInOnly(gens[last.gen])
     /\ last.options.root \in Elements \ {1})
        => /\ \A i \in CallsOf(last.hooks, "provideSelector") :
                 HeuristicNamed(gens[last.gen], last.hooks[i].name).impl
                         \in {"id", "unique-attribute"}
                     => ProvidedAt(gens[last.gen], last.hooks, i) = <<>>
           /\ ~StartsWith(last.xpath, <<"/", "/">>)
           /\ LedByTag(last.xpath, toLowerCase(doc.tagName[last.options.root]))

\* the node is below a custom root and carries an id no other element has
C26_Witness ==
    /\ Got("getXPathForNode")
    /\ BuiltInOnly(gens[last.gen])
    /\ last.options.root \in Elements \ {1}
    /\ last.node # last.options.root
    /\ UniqueInDocument(last.node, ATTR_id)
    /\ last.xpath = StructuralPath(last.options.root, last.node,
                                   StrategyOf(last.options))

\* without a custom root the same node gets the id selector
C26_WitnessDocumentRoot ==
    /\ Got("getXPathForNode")
    /\ BuiltInOnly(gens[last.gen])
    /\ last.options.root = Null
    /\ UniqueInDocument(last.node, ATTR_id)
    /\ StartsWith(last.xpath, <<"/", "/", "*", "[">>)

(***************************************************************************)
(* resolveXPath with a context element: paths that start with the tag of   *)
(* an element, with and without an index, with a trailing slash, and paths *)
(* that start with //, on documents without attributes.                    *)
(***************************************************************************)
RelativizationInputs ==
    {<<"/", "d", "i", "v">>, <<"/", "d", "i", "v", "/", "p">>, <<"/", "d", "i", "v", "/", "d", "i", "v">>, <<"/", "d", "i", "v", "[", "1", "]", "/", "p">>, <<"/", "d", "i", "v", "[", "1", "]">>, <<"/", "d", "i", "v", "/">>,
     <<"/", "h", "t", "m", "l">>, <<"/", "h", "t", "m", "l", "/", "p">>, <<"/", "h", "t", "m", "l", "[", "1", "]", "/", "p">>, <<"/", "p">>, <<"/", "p", "/", "p">>, <<"/", "/", "p">>,
     <<"/", "/", "d", "i", "v", "/", "p">>, <<"/", "d", "i", "v", "x">>}

InitPlan == InitDocs(Documents(0))

NextPlan == ResolveExpression(RelativizationInputs)

SpecPlan == InitPlan /\ [][NextPlan]_vars

\* the first node an expression selects from a context if it is an element
FirstElement(expression, context) ==
    LET result == evaluate(expression, context)
    IN  IF result.throws \/ result.nodes = <<>> THEN Null
        ELSE IF result.nodes[1] \in Elements THEN result.nodes[1]
        ELSE Null

(***************************************************************************)
(* C27: with a context element of tag t, resolveXPath returns the context  *)
(* for the expression /t and evaluates nothing; an expression that starts  *)
(* with /t/ is evaluated as ./ followed by the rest, from the context;     *)
(* every other expression, also one that starts with /t[ or with //, goes  *)
(* to the evaluator unchanged.                                             *)
(***************************************************************************)
C27_Relativization ==
    (last.op = "resolveXPath" /\ last.from = NoCall /\ last.context \in Elements)
        => LET expression == normalizeXPath(last.xpath)
               t == <<"/">> \o toLowerCase(doc.tagName[last.context])
               rest == SubSeq(expression, Len(t) + 2, Len(expression))
           IN  IF expression = t
               THEN last.evaluated = <<>> /\ last.node = last.context
               ELSE IF StartsWith(expression, t \o <<"/">>)
               THEN /\ last.evaluated = <<<<".", "/">> \o rest>>
                    /\ last.node = FirstElement(<<".", "/">> \o rest, last.context)
               ELSE /\ last.evaluated = <<expression>>
                    /\ last.node = FirstElement(expression, last.context)

\* /div/p with a div as context: the p inside the context is found, which
\* the expression as it stands does not select
C27_Witness ==
    /\ last.op = "resolveXPath"
    /\ last.from = NoCall
    /\ last.context \in Elements
    /\ last.xpath = <<"/", "d", "i", "v", "/", "p">>
    /\ last.evaluated = <<<<".", "/", "p">>>>
    /\ last.node \in Elements
    /\ doc.parent[last.node] = last.context
    /\ FirstElement(last.xpath, last.context) = Null

\* the context's tag alone: the context comes back, nothing is evaluated
C27_WitnessSelf ==
    /\ last.op = "resolveXPath"
    /\ last.from = NoCall
    /\ last.context \in Elements \ {1}
    /\ last.evaluated = <<>>
    /\ last.node = last.context

\* the context's tag with an index: the expression is evaluated unchanged
C27_WitnessIndexed ==
    /\ last.op = "resolveXPath"
    /\ last.from = NoCall
    /\ last.context \in Elements \ {1}
    /\ last.xpath = <<"/", "d", "i", "v", "[", "1", "]", "/", "p">>
    /\ doc.tagName[last.context] = TAG_DIV
    /\ last.evaluated = <<last.xpath>>

(***************************************************************************)
(* getShortestUniqueXPath on wider documents: up to MaxWideElems elements  *)
(* without attributes, so that an element can have a sibling of its tag    *)
(* inside a custom root while another element of that tag stands outside.  *)
(***************************************************************************)
MaxWideElems == 4

WideDocuments ==
    UNION {{[n |-> n, parent |-> p, tagName |-> t,
             attrs |-> [e \in 1..n |-> NoAttributes]] :
                p \in Shapes(n), t \in TagChoices(n)} :
           n \in 1..MaxWideElems}

WideOptions ==
    {NoOptions} \cup
    {GivenOptions("undefined", <<>>, minIndex, root) :
        minIndex \in {"auto", "always"}, root \in {Null} \cup Elements}

InitWide == InitDocs(WideDocuments)

NextWide == GetShortestUniqueXPath(WideOptions)

SpecWide == InitWide /\ [][NextWide]_vars

(***************************************************************************)
(* C28: for every element and every options value, a custom root           *)
(* included, what getShortestUniqueXPath returns is no longer than what    *)
(* getXPathForNode returns for the same arguments.                         *)
(***************************************************************************)
C28_NeverLonger ==
    Got("getShortestUniqueXPath")
        => Len(last.xpath)
               <= Len(getXPathForNode(gens[last.gen], last.node, last.options).xpath)

\* the full path with // before it is returned: one character more than
\* the path of getXPathForNode
C28_Witness ==
    /\ Got("getShortestUniqueXPath")
    /\ last.options.root \in Elements \ {1}
    /\ last.xpath = <<"/">> \o getXPathForNode(gens[last.gen], last.node,
                                               last.options).xpath

\* a shorter expression is returned
C28_WitnessShorter ==
    /\ Got("getShortestUniqueXPath")
    /\ Len(last.xpath)
           < Len(getXPathForNode(gens[last.gen], last.node, last.options).xpath)

(***************************************************************************)
(* C29: for every tree, scope, attribute and value, the count of the stack *)
(* traversal gives the same verdict (exactly one match) as the count of    *)
(* the native query, also when the scope element carries the value itself, *)
(* and the traversal's count never goes beyond two.                        *)
(***************************************************************************)
C29_FallbackAgrees ==
    (/\ last.op = "isAttributeUnique"
     /\ last.scope # Null
     /\ hasAttribute(last.node, last.attribute))
        => LET value == getAttribute(last.node, last.attribute)
           IN  /\ (countAttributeMatchesFallback(last.scope, last.attribute, value) = 1)
                      <=> (Cardinality(querySelectorAllAttr(last.scope, last.attribute,
                                                            value)) = 1)
               /\ countAttributeMatchesFallback(last.scope, last.attribute, value) <= 2

\* the scope element carries the value and nothing below it does: the
\* native query finds nothing, the traversal counts the scope
C29_Witness ==
    /\ last.op = "isAttributeUnique"
    /\ last.scope \in Elements
    /\ last.node = last.scope
    /\ hasAttribute(last.node, last.attribute)
    /\ querySelectorAllAttr(last.scope, last.attribute,
                            getAttribute(last.node, last.attribute)) = {}
    /\ countAttributeMatchesFallback(last.scope, last.attribute,
                                     getAttribute(last.node, last.attribute)) = 1

\* three elements carry the value and the traversal stops at two
C29_WitnessStops ==
    /\ last.op = "isAttributeUnique"
    /\ last.scope = DocumentNode
    /\ hasAttribute(last.node, last.attribute)
    /\ Cardinality(querySelectorAllAttr(last.scope, last.attribute,
                                        getAttribute(last.node, last.attribute))) = 3
    /\ countAttributeMatchesFallback(last.scope, last.attribute,
                                     getAttribute(last.node, last.attribute)) = 2

\* the entries of before are all in after, in the same relative order
KeepsOrder(before, after) ==
    \E f \in [DOMAIN before -> DOMAIN after] :
        /\ \A i \in DOMAIN before : after[f[i]] = before[i]
        /\ \A i \in DOMAIN before, j \in DOMAIN before : i < j => f[i] < f[j]

\* the names passed to a call that no entry of the list carries
NewNames(entries, before) ==
    {entries[i].name : i \in DOMAIN entries}
        \ {before[i].name : i \in DOMAIN before}

(***************************************************************************)
(* C30: after a register call every heuristic that was in the registry     *)
(* before the call is still in it, in the same relative order; the list    *)
(* is never shorter than before and is longer by exactly the number of     *)
(* different new names passed.                                             *)
(***************************************************************************)
C30_RegisterMonotonic ==
    last.op = "register"
        => /\ KeepsOrder(last.before, ListOf(last.reg))
           /\ Len(ListOf(last.reg)) >= Len(last.before)
           /\ Len(ListOf(last.reg))
                  = Len(last.before) + Cardinality(NewNames(last.entries, last.before))

\* two entries are passed, one of a name that is taken and one of a new
\* name: the list grows by one on a registry that held a plugin already
C30_Witness ==
    /\ last.op = "register"
    /\ Len(last.entries) = 2
    /\ Len(last.before) > Len(DEFAULT_HEURISTICS)
    /\ \E i \in DOMAIN last.entries : HasName(last.before, last.entries[i].name)
    /\ Cardinality(NewNames(last.entries, last.before)) = 1
    /\ Len(ListOf(last.reg)) = Len(last.before) + 1

\* two objects of one new name are passed: the list grows by one
C30_WitnessSameName ==
    /\ last.op = "register"
    /\ last.entries = <<PluginA1, PluginA2>>
    /\ ~HasName(last.before, PluginA1.name)
    /\ Len(ListOf(last.reg)) = Len(last.before) + 1

(***************************************************************************)
(* normalizeXPath on its own: the caller passes a string, and may pass the *)
(* result of the previous call again.                                      *)
(***************************************************************************)
NormChars == {"/", " ", "a"}

NormInputs == UNION {[1..n -> NormChars] : n \in 0..MaxLen}

InitNorm ==
    /\ doc = NoDoc
    /\ gens = <<>>
    /\ last = NoCall
    /\ heap = <<>>
    /\ regs = <<>>

NormalizeInput ==
    /\ \E x \in NormInputs :
          last' = [op |-> "normalizeXPath", arg |-> x,
                   result |-> normalizeXPath(x), chained |-> FALSE]
    /\ UNCHANGED <<doc, gens, heap, regs>>

NormalizeAgain ==
    /\ last.op = "normalizeXPath"
    /\ last' = [op |-> "normalizeXPath", arg |-> last.result,
                result |-> normalizeXPath(last.result), chained |-> TRUE]
    /\ UNCHANGED <<doc, gens, heap, regs>>

NextNorm == NormalizeInput \/ NormalizeAgain

SpecNorm == InitNorm /\ [][NextNorm]_vars

\* C7: normalizeXPath is idempotent: normalizing the result of a
\* normalization returns it unchanged, for every input string.
C7_NormalizeIdempotent ==
    (last.op = "normalizeXPath" /\ last.chained) => last.result = last.arg

\* C7: the test's case ' //div///span// ' in small: a padded string with a
\* trailing slash run and a long inner run has been normalized twice.
C7_Witness ==
    /\ last.op = "normalizeXPath"
    /\ last.chained
    /\ last.arg = <<"/", "/", "a">>

====
